---------------------------- MODULE Spec2Model ----------------------------
(***************************************************************************)
(* A model of the generic derive expansion engine,                         *)
(* compiler/rustc_builtin_macros/src/deriving/generic/mod.rs.              *)
(*                                                                         *)
(* The engine is a sequential code generator.  Its state is the input of   *)
(* one expansion (the annotated item, the TraitDef, from_scratch), the     *)
(* position of expand_ext, the diagnostics reported through the ExtCtxt,   *)
(* the items handed to push, and the generated methods together with the   *)
(* log of the calls made to each method's combine_substructure callback.   *)
(* Generated code is kept as an abstract syntax tree (records tagged by    *)
(* the field e for expressions, p for patterns, s for statements), and an  *)
(* interpreter of the generated match/if code tells which arm runs for     *)
(* given runtime arguments.                                                *)
(*                                                                         *)
(* Specifications:                                                         *)
(*   Spec           expand_ext on items of every shape (field types i32)   *)
(*   SpecImpl       expand_ext on generic items with varied field types    *)
(*   SpecSummarise  summarise_struct on arbitrary field lists              *)
(*   SpecFold       cs_fold on every kind of substructure                  *)
(*   SpecCoerce     into_block and into_expr on every BlockOrExpr          *)
(*   SpecArgs       expand_ext for methods with varied parameter types     *)
(***************************************************************************)
EXTENDS Integers, Sequences, FiniteSets, TLC

VARIABLES
    pc,            \* position of the running operation
    item,          \* the Annotatable::Item being derived upon
    trait_def,     \* the TraitDef (self of expand_ext)
    from_scratch,  \* expand_ext's from_scratch argument
    diagnostics,   \* what was reported through cx.span_err / cx.span_bug / panics
    pushed,        \* the items handed to the push callback, in order
    methods,       \* per MethodDef: the generated method and the combinator calls
    newitem,       \* Some(impl item) once create_derived_impl returned
    exec,          \* Some([args, ran]) once the generated body of a method was run
    struct_def,    \* summarise_struct: the VariantData argument
    summary,       \* summarise_struct: Some(result)
    use_foldl,     \* cs_fold: direction
    substructure,  \* cs_fold: the SubstructureFields argument
    fold_result,   \* cs_fold: Some(the expression returned)
    f_calls,       \* cs_fold: the CsFold values the callback f was called with
    block_or_expr, \* into_block / into_expr: the BlockOrExpr they are called on
    as_block,      \* into_block: Some(the block returned)
    as_expr        \* into_expr: Some(the expression returned)

vars == <<pc, item, trait_def, from_scratch, diagnostics, pushed, methods, newitem,
          exec, struct_def, summary, use_foldl, substructure, fold_result, f_calls,
          block_or_expr, as_block, as_expr>>

\* the variables of the coercions of a BlockOrExpr
coerce_vars == <<block_or_expr, as_block, as_expr>>

-----------------------------------------------------------------------------
(* Bounds of the model.                                                    *)

\* most fields of a struct, union or enum variant
MaxFields == 2
\* most variants of an enum
MaxVariants == 3
\* most &Self parameters of a method besides the receiver
MaxOtherSelf == 2
\* most fields of a substructure handed to cs_fold
MaxFoldFields == 3
\* most fields of a field list handed directly to summarise_struct
MaxSumFields == 3
\* most fields of a struct whose field types vary
MaxTypedFields == 2
\* most statements of a BlockOrExpr handed directly to the coercions
MaxStmts == 3
\* most parameters, besides the receiver, of a method whose parameter
\* types vary
MaxArgs == 3

-----------------------------------------------------------------------------
(* Option values: None is the empty sequence, Some(x) the sequence <<x>>.  *)

None == <<>>

Some(x) == <<x>>

IsSome(o) == Len(o) = 1

Unwrap(o) == o[1]

\* Vec helpers
Reverse(s) == [i \in 1..Len(s) |-> s[Len(s) + 1 - i]]

RECURSIVE Flatten(_)
Flatten(ss) == IF ss = <<>> THEN <<>> ELSE Head(ss) \o Flatten(Tail(ss))

Contains(s, x) == \E i \in 1..Len(s) : s[i] = x

-----------------------------------------------------------------------------
(* Spans: a source position and a hygiene context.  with_ctxt keeps the    *)
(* position and replaces the context.                                      *)

Span(pos, ctxt) == [pos |-> pos, ctxt |-> ctxt]

with_ctxt(sp, ctxt) == [sp EXCEPT !.ctxt = ctxt]

\* the span of the #[derive(Foo)] header (TraitDef::span)
trait_span == Span(0, "derive")

-----------------------------------------------------------------------------
(* The parts of the ast the engine reads.                                  *)

\* ast::FieldDef: ident is an Option<Ident>
FieldDef(ident, ty, span) == [ident |-> ident, ty |-> ty, span |-> span]

\* ast::VariantData: Struct(fields) | Tuple(fields) | Unit
VariantData(style, fields) == [style |-> style, fields |-> fields]

\* VariantData::fields(): Unit has none
fields_of(data) == IF data.style = "Unit" THEN <<>> ELSE data.fields

\* ast::Variant
Variant(ident, span, data) == [ident |-> ident, span |-> span, data |-> data]

\* ast::Ty, by kind: Path(qself, path) | Rptr(ty) | Tup(tys) | MacCall |
\* TraitObject(bounds).  All kinds are records of the same shape.
AstTy(t, qself, segments, tys, bounds) ==
    [t |-> t, qself |-> qself, segments |-> segments, tys |-> tys, bounds |-> bounds]

\* ast::PathSegment with the types among its generic arguments
PathSegment(ident, args) == [ident |-> ident, args |-> args]

TyPath(qself, segments) == AstTy("Path", qself, segments, <<>>, <<>>)

TyRptr(ty) == AstTy("Rptr", None, <<>>, <<ty>>, <<>>)

TyTup(tys) == AstTy("Tup", None, <<>>, tys, <<>>)

TyMacCall == AstTy("MacCall", None, <<>>, <<>>, <<>>)

TyTraitObject(bounds) == AstTy("TraitObject", None, <<>>, <<>>, bounds)

\* ast::PolyTraitRef: for<bound_generic_params> trait_ref
PolyTraitRef(bound_generic_params, segments) ==
    [bound_generic_params |-> bound_generic_params, segments |-> segments]

\* ast::GenericParam; kind is "Lifetime", "Type" or "Const", default is the
\* Option of a const parameter's default value.  A const parameter also
\* carries its type ty and the span kw_span of its const keyword.
GenericParam(ident, kind, bounds, default) ==
    [ident |-> ident, kind |-> kind, bounds |-> bounds, default |-> default]

\* ast::WherePredicate; kind is "BoundPredicate", "RegionPredicate" or "EqPredicate"
WherePredicate(kind, span, bound_generic_params, bounded_ty, bounds) ==
    [kind |-> kind, span |-> span, bound_generic_params |-> bound_generic_params,
     bounded_ty |-> bounded_ty, bounds |-> bounds]

\* ast::Generics
Generics(params, predicates) == [params |-> params, predicates |-> predicates]

\* ast::MetaItem in the list of an attribute: a word such as C or packed,
\* with its literal arguments when it has some, as in packed(2)
MetaItem(name, args) == [name |-> name, args |-> args]

\* ast::Attribute, by name and the items of its list: #[repr(C, packed(2))] is
\* Attribute("repr", <<MetaItem("C", <<>>), MetaItem("packed", <<"2">>)>>) and
\* the word attribute #[inline] is Attribute("inline", <<>>)
Attribute(name, items) == [name |-> name, items |-> items]

-----------------------------------------------------------------------------
(* StaticFields and summarise_struct.                                      *)

Unnamed(spans, is_tuple) == [tag |-> "Unnamed", spans |-> spans, is_tuple |-> is_tuple]

Named(idents) == [tag |-> "Named", idents |-> idents]

\* cx.span_bug: the expansion ends with an internal compiler error.  The
\* messages of the diagnostics are written without the quotation marks the
\* source puts around derive and Self.
span_bug(msg) == [tag |-> "span_bug", msg |-> msg]

IsBug(r) == r.tag = "span_bug"

\* the loop of summarise_struct: the (ident, span) pairs of the named fields
named_idents(data) ==
    LET fs == fields_of(data)
        named == SelectSeq(fs, LAMBDA f : IsSome(f.ident))
    IN  [i \in 1..Len(named) |->
            [ident |-> Unwrap(named[i].ident),
             span |-> with_ctxt(named[i].span, trait_span.ctxt)]]

\* the loop of summarise_struct: the spans of the unnamed fields
just_spans(data) ==
    LET fs == fields_of(data)
        unnamed == SelectSeq(fs, LAMBDA f : ~IsSome(f.ident))
    IN  [i \in 1..Len(unnamed) |-> with_ctxt(unnamed[i].span, trait_span.ctxt)]

\* a faulty summarise_struct: the arm of the mixed field list is left out,
\* so that such a list falls to the arm of the named fields
summarise_struct_no_mixed_arm(data) ==
    LET is_tuple == data.style = "Tuple"
        spans_empty == just_spans(data) = <<>>
        named_empty == named_idents(data) = <<>>
    IN  CASE ~named_empty -> Named(named_idents(data))
          [] ~spans_empty -> Unnamed(just_spans(data), is_tuple)
          [] OTHER -> Named(<<>>)

\* a faulty summarise_struct: is_tuple is not taken from the declaration
summarise_struct_not_tuple(data) ==
    LET spans_empty == just_spans(data) = <<>>
        named_empty == named_idents(data) = <<>>
    IN  CASE ~spans_empty /\ ~named_empty ->
                span_bug("a struct with named and unnamed fields in generic derive")
          [] ~named_empty -> Named(named_idents(data))
          [] ~spans_empty -> Unnamed(just_spans(data), FALSE)
          [] OTHER -> Named(<<>>)

\* a faulty summarise_struct: the arm of the empty field list is left out,
\* so that it falls to the arm of the unnamed fields
summarise_struct_empty_unnamed(data) ==
    LET is_tuple == data.style = "Tuple"
        spans_empty == just_spans(data) = <<>>
        named_empty == named_idents(data) = <<>>
    IN  CASE ~spans_empty /\ ~named_empty ->
                span_bug("a struct with named and unnamed fields in generic derive")
          [] ~named_empty -> Named(named_idents(data))
          [] OTHER -> Unnamed(just_spans(data), is_tuple)

summarise_struct(data) ==
    LET is_tuple == data.style = "Tuple"
        spans_empty == just_spans(data) = <<>>
        named_empty == named_idents(data) = <<>>
    IN  CASE ~spans_empty /\ ~named_empty ->
                span_bug("a struct with named and unnamed fields in generic derive")
          [] ~named_empty -> Named(named_idents(data))
          [] ~spans_empty -> Unnamed(just_spans(data), is_tuple)
          [] OTHER -> Named(<<>>)

-----------------------------------------------------------------------------
(* The ast the engine builds (the ExtCtxt builder calls of mod.rs).        *)
(* Expressions carry the tag e, patterns the tag p, statements the tag s.  *)

\* cx.expr_ident / cx.expr_path(cx.path_ident(..)) / cx.expr_self
expr_ident(name) == [e |-> "path", name |-> name]

expr_deref(x) == [e |-> "deref", of |-> x]

expr_addr_of(x) == [e |-> "addr_of", of |-> x]

\* cx.expr(sp, ast::ExprKind::Field(x, ident))
expr_field(x, name) == [e |-> "field", of |-> x, name |-> name]

\* cx.expr(span, ast::ExprKind::Tup(xs))
expr_tup(xs) == [e |-> "tup", elems |-> xs]

expr_bool(b) == [e |-> "bool", val |-> b]

expr_binary(op, lhs, rhs) == [e |-> "binary", op |-> op, lhs |-> lhs, rhs |-> rhs]

expr_match(arg, arms) == [e |-> "match", arg |-> arg, arms |-> arms]

expr_if(cond, then, els) == [e |-> "if", cond |-> cond, then |-> then, els |-> els]

expr_block(b) == [e |-> "block", stmts |-> b]

\* deriving::call_intrinsic(cx, span, name, args)
call_intrinsic(name, args) == [e |-> "intrinsic", name |-> name, elems |-> args]

\* deriving::call_unreachable(cx, span)
call_unreachable == [e |-> "unreachable"]

\* cx.block(span, stmts)
block(stmts) == stmts

stmt_expr(x) == [s |-> "expr", expr |-> x]

stmt_let_pat(pat, x) == [s |-> "let", pat |-> pat, expr |-> x]

pat_ident(mode, name) == [p |-> "ident", mode |-> mode, name |-> name]

\* cx.stmt_let(span, false, ident, ex): an immutable by-value binding
stmt_let(ident, x) == stmt_let_pat(pat_ident("ByValue", ident), x)

pat_struct(path, field_pats) == [p |-> "struct", path |-> path, subpats |-> field_pats]

pat_tuple_struct(path, subpats) == [p |-> "tuple_struct", path |-> path, subpats |-> subpats]

pat_path(path) == [p |-> "path", path |-> path]

pat_ref(pat) == [p |-> "ref", subpats |-> <<pat>>]

pat_tuple(pats) == [p |-> "tuple", subpats |-> pats]

pat_wild == [p |-> "wild"]

arm(pat, body) == [pat |-> pat, body |-> body]

-----------------------------------------------------------------------------
(* BlockOrExpr: statements, then an optional expression.                   *)

BlockOrExpr(stmts, expr) == [stmts |-> stmts, expr |-> expr]

new_stmts(stmts) == BlockOrExpr(stmts, None)

new_expr(expr) == BlockOrExpr(<<>>, Some(expr))

new_mixed(stmts, expr) == BlockOrExpr(stmts, Some(expr))

into_block(b) ==
    IF IsSome(b.expr)
    THEN block(Append(b.stmts, stmt_expr(Unwrap(b.expr))))
    ELSE block(b.stmts)

\* a faulty into_expr: the block is built in every case
into_expr_always_block(b) == expr_block(into_block(b))

into_expr(b) ==
    IF b.stmts = <<>>
    THEN IF IsSome(b.expr) THEN Unwrap(b.expr) ELSE expr_block(block(<<>>))
    ELSE expr_block(into_block(b))

-----------------------------------------------------------------------------
(* SubstructureFields, Substructure and FieldInfo.                         *)

Struct(data, fields) == [tag |-> "Struct", data |-> data, fields |-> fields]

EnumMatching(index, count, variant, fields) ==
    [tag |-> "EnumMatching", index |-> index, count |-> count,
     variant |-> variant, fields |-> fields]

EnumNonMatchingCollapsed(idents) == [tag |-> "EnumNonMatchingCollapsed", idents |-> idents]

StaticStruct(data, sum) == [tag |-> "StaticStruct", data |-> data, summary |-> sum]

StaticEnum(enum_def, sum) == [tag |-> "StaticEnum", enum_def |-> enum_def, summaries |-> sum]

Substructure(type_ident, nonselflike_args, fields) ==
    [type_ident |-> type_ident, nonselflike_args |-> nonselflike_args, fields |-> fields]

FieldInfo(span, name, self_expr, other_selflike_exprs) ==
    [span |-> span, name |-> name, self_expr |-> self_expr,
     other_selflike_exprs |-> other_selflike_exprs]

-----------------------------------------------------------------------------
(* cs_fold and the values its callback is called with.                     *)

Single(field) == [tag |-> "Single", field |-> field]

Combine(span, old, new) == [tag |-> "Combine", span |-> span, old |-> old, new |-> new]

Fieldless == [tag |-> "Fieldless"]

EnumNonMatching(span, idents) == [tag |-> "EnumNonMatching", span |-> span, idents |-> idents]

\* The callback f the fold is exercised with: Single(field) is the field's
\* own expression, Combine(_, a, b) is pair(a, b); the two fallbacks are markers.
pair(a, b) == [e |-> "pair", lhs |-> a, rhs |-> b]

f(c) ==
    CASE c.tag = "Single" -> c.field.self_expr
      [] c.tag = "Combine" -> pair(c.old, c.new)
      [] c.tag = "Fieldless" -> [e |-> "fieldless"]
      [] c.tag = "EnumNonMatching" -> [e |-> "nonmatching", elems |-> c.idents]

\* a faulty op: the two expressions of Combine are swapped
op_swapped(acc, field) ==
    LET new == f(Single(field))
        comb == Combine(field.span, new, acc.expr)
    IN  [expr |-> f(comb), calls |-> acc.calls \o <<Single(field), comb>>]

\* the closure op of cs_fold: new = f(Single(field)); f(Combine(field.span, old, new)).
\* The accumulator carries the expression and the log of the calls of f.
op(acc, field) ==
    LET new == f(Single(field))
        comb == Combine(field.span, acc.expr, new)
    IN  [expr |-> f(comb), calls |-> acc.calls \o <<Single(field), comb>>]

\* Iterator::fold over rest with op
RECURSIVE fold(_, _)
fold(rest, acc) == IF rest = <<>> THEN acc ELSE fold(Tail(rest), op(acc, Head(rest)))

\* a faulty rfold: the elements are taken from the front
rfold_from_front(rest, acc) == fold(rest, acc)

\* DoubleEndedIterator::rfold over rest with op: the elements from the back
rfold(rest, acc) == fold(Reverse(rest), acc)

\* a faulty cs_fold: the base field is not split off the fields folded over,
\* so that it is combined with itself
cs_fold_base_in_rest(foldl, sub) ==
    CASE sub.fields.tag \in {"EnumMatching", "Struct"} ->
            LET all_fields == sub.fields.fields
            IN  IF all_fields = <<>>
                THEN [bug |-> None, result |-> Some(f(Fieldless)), calls |-> <<Fieldless>>]
                ELSE LET base_field == IF foldl THEN Head(all_fields)
                                                ELSE all_fields[Len(all_fields)]
                         base == [expr |-> f(Single(base_field)),
                                  calls |-> <<Single(base_field)>>]
                         done == IF foldl THEN fold(all_fields, base)
                                          ELSE rfold(all_fields, base)
                     IN  [bug |-> None, result |-> Some(done.expr), calls |-> done.calls]
      [] sub.fields.tag = "EnumNonMatchingCollapsed" ->
            [bug |-> None,
             result |-> Some(f(EnumNonMatching(trait_span, sub.fields.idents))),
             calls |-> <<EnumNonMatching(trait_span, sub.fields.idents)>>]
      [] sub.fields.tag \in {"StaticEnum", "StaticStruct"} ->
            [bug |-> Some("static function in derive"), result |-> None, calls |-> <<>>]

\* a faulty cs_fold: a static substructure is folded as one without fields
cs_fold_static_fieldless(foldl, sub) ==
    CASE sub.fields.tag \in {"EnumMatching", "Struct"} ->
            LET all_fields == sub.fields.fields
            IN  IF all_fields = <<>>
                THEN [bug |-> None, result |-> Some(f(Fieldless)), calls |-> <<Fieldless>>]
                ELSE LET base_field == IF foldl THEN Head(all_fields)
                                                ELSE all_fields[Len(all_fields)]
                         rest == IF foldl THEN Tail(all_fields)
                                          ELSE SubSeq(all_fields, 1, Len(all_fields) - 1)
                         base == [expr |-> f(Single(base_field)),
                                  calls |-> <<Single(base_field)>>]
                         done == IF foldl THEN fold(rest, base) ELSE rfold(rest, base)
                     IN  [bug |-> None, result |-> Some(done.expr), calls |-> done.calls]
      [] sub.fields.tag = "EnumNonMatchingCollapsed" ->
            [bug |-> None,
             result |-> Some(f(EnumNonMatching(trait_span, sub.fields.idents))),
             calls |-> <<EnumNonMatching(trait_span, sub.fields.idents)>>]
      [] sub.fields.tag \in {"StaticEnum", "StaticStruct"} ->
            [bug |-> None, result |-> Some(f(Fieldless)), calls |-> <<Fieldless>>]

\* cs_fold(use_foldl, cx, trait_span, substructure, f): the span_bug message
\* if it ends in one, the expression it returns otherwise, and the calls made
\* to f, in order
cs_fold(foldl, sub) ==
    CASE sub.fields.tag \in {"EnumMatching", "Struct"} ->
            LET all_fields == sub.fields.fields
            IN  IF all_fields = <<>>
                THEN [bug |-> None, result |-> Some(f(Fieldless)), calls |-> <<Fieldless>>]
                ELSE LET base_field == IF foldl THEN Head(all_fields)
                                                ELSE all_fields[Len(all_fields)]
                         rest == IF foldl THEN Tail(all_fields)
                                          ELSE SubSeq(all_fields, 1, Len(all_fields) - 1)
                         base == [expr |-> f(Single(base_field)),
                                  calls |-> <<Single(base_field)>>]
                         done == IF foldl THEN fold(rest, base) ELSE rfold(rest, base)
                     IN  [bug |-> None, result |-> Some(done.expr), calls |-> done.calls]
      [] sub.fields.tag = "EnumNonMatchingCollapsed" ->
            [bug |-> None,
             result |-> Some(f(EnumNonMatching(trait_span, sub.fields.idents))),
             calls |-> <<EnumNonMatching(trait_span, sub.fields.idents)>>]
      [] sub.fields.tag \in {"StaticEnum", "StaticStruct"} ->
            [bug |-> Some("static function in derive"), result |-> None, calls |-> <<>>]

-----------------------------------------------------------------------------
(* deriving::generic::ty::Ty, the types of a MethodDef's arguments.        *)

Self_ == [k |-> "Self_"]

Path(name) == [k |-> "Path", name |-> name]

Ref(inner) == [k |-> "Ref", inner |-> inner]

\* Ty::to_ty: the ast type of a method argument
RECURSIVE to_ty(_, _)
to_ty(ty, type_ident) ==
    CASE ty.k = "Self_" -> TyPath(None, <<PathSegment(type_ident, <<>>)>>)
      [] ty.k = "Path" -> TyPath(None, <<PathSegment(ty.name, <<>>)>>)
      [] ty.k = "Ref" -> TyRptr(to_ty(ty.inner, type_ident))

\* MethodDef; combine_substructure names which combinator the method owns
MethodDef(name, explicit_self, nonself_args, unify, combinator) ==
    [name |-> name, explicit_self |-> explicit_self, nonself_args |-> nonself_args,
     unify_fieldless_variants |-> unify, combine_substructure |-> combinator]

is_static(method) == ~method.explicit_self

-----------------------------------------------------------------------------
(* The combinator.  It is supplied by the derived trait; the model's       *)
(* combinators return a marker expression that holds the Substructure they *)
(* were called with, in each of the three forms BlockOrExpr can be built.  *)

code(sub) == [e |-> "code", sub |-> sub]

Combinators == {"new_expr", "new_mixed", "new_stmts"}

combine_substructure(combinator, sub) ==
    CASE combinator = "new_expr" -> new_expr(code(sub))
      [] combinator = "new_mixed" -> new_mixed(<<stmt_expr(code(sub))>>, code(sub))
      [] combinator = "new_stmts" -> new_stmts(<<stmt_expr(code(sub))>>)

\* MethodDef::call_substructure_method: builds the Substructure and calls
\* the combinator once
call_substructure_method(method, type_ident, nonselflike_args, fields) ==
    combine_substructure(method.combine_substructure,
                         Substructure(type_ident, nonselflike_args, fields))

\* what an expand_*_method_body returns: the panic message if it panicked,
\* the body, and the substructures the combinator was called with, in order
Expanded(bug, body, calls) == [bug |-> bug, body |-> body, calls |-> calls]

-----------------------------------------------------------------------------
(* MethodDef::extract_arg_details.                                         *)

\* ty::get_explicit_self: the expression *self
self_expr == expr_deref(expr_ident("self"))

\* the match on the argument's type, lines 938-945
ArgClass(method, ty) ==
    CASE ty.k = "Ref" /\ ty.inner.k = "Self_" /\ ~is_static(method) -> "selflike"
      [] ty.k = "Self_" -> "span_bug"
      [] OTHER -> "nonselflike"

extract_arg_details(method, type_ident) ==
    LET args == method.nonself_args
        classes == [i \in 1..Len(args) |-> ArgClass(method, args[i].ty)]
        idx == [i \in 1..Len(args) |-> i]
        pick(c) == LET sel == SelectSeq(idx, LAMBDA i : classes[i] = c)
                   IN  [j \in 1..Len(sel) |-> args[sel[j]]]
        selflike == pick("selflike")
        nonselflike == pick("nonselflike")
    IN  [bug |-> IF \E i \in 1..Len(args) : classes[i] = "span_bug"
                 THEN Some("'Self' in non-return position") ELSE None,
         explicit_self |-> IF method.explicit_self THEN Some("&self") ELSE None,
         selflike_args |->
             (IF method.explicit_self THEN <<self_expr>> ELSE <<>>)
             \o [j \in 1..Len(selflike) |-> expr_deref(expr_ident(selflike[j].name))],
         nonselflike_args |->
             [j \in 1..Len(nonselflike) |-> expr_ident(nonselflike[j].name)],
         nonself_arg_tys |->
             [i \in 1..Len(args) |->
                 [ident |-> args[i].name, ty |-> to_ty(args[i].ty, type_ident)]]]

-----------------------------------------------------------------------------
(* Field expressions and patterns (the general helper methods).            *)

\* TraitDef::mk_pattern_ident: format!("{}_{}", prefix, i)
mk_pattern_ident(prefix, i) == prefix \o "_" \o ToString(i)

\* TraitDef::create_fields; exprs[i] is what mk_exprs returns for field i
create_fields(data, exprs) ==
    LET fs == fields_of(data)
    IN  [i \in 1..Len(fs) |->
            FieldInfo(with_ctxt(fs[i].span, trait_span.ctxt), fs[i].ident,
                      Head(exprs[i]), Tail(exprs[i]))]

create_struct_pattern_fields(data, prefixes, use_temporaries) ==
    create_fields(data,
        [i \in 1..Len(fields_of(data)) |->
            [k \in 1..Len(prefixes) |->
                LET expr == expr_ident(mk_pattern_ident(prefixes[k], i - 1))
                IN  IF use_temporaries THEN expr ELSE expr_deref(expr)]])

\* the closure of create_struct_field_access_fields: the deref is dropped
strip_deref(x) == IF x.e = "deref" THEN x.of ELSE x

create_struct_field_access_fields(selflike_args, data) ==
    create_fields(data,
        [i \in 1..Len(fields_of(data)) |->
            [k \in 1..Len(selflike_args) |->
                expr_field(strip_deref(selflike_args[k]),
                           IF IsSome(fields_of(data)[i].ident)
                           THEN Unwrap(fields_of(data)[i].ident)
                           ELSE ToString(i - 1))]])

\* lines 1481-1487: building the pattern of a braced field list that has a
\* field without a name ends in span_bug; it is built once per prefix
braced_unnamed(data, prefixes) ==
    /\ prefixes # <<>>
    /\ data.style = "Struct"
    /\ \E i \in 1..Len(fields_of(data)) : ~IsSome(fields_of(data)[i].ident)

\* TraitDef::create_struct_patterns: one pattern per prefix, or the span_bug
create_struct_patterns(struct_path, data, prefixes, mutbl, use_temporaries) ==
    IF braced_unnamed(data, prefixes)
    THEN span_bug("a braced struct with unnamed fields in derive")
    ELSE
    [k \in 1..Len(prefixes) |->
        LET fs == fields_of(data)
            binding_mode == IF use_temporaries THEN "ByValue" ELSE "ByRef"
            pieces == [i \in 1..Len(fs) |->
                          [ident |-> fs[i].ident,
                           pat |-> pat_ident(binding_mode,
                                             mk_pattern_ident(prefixes[k], i - 1))]]
        IN  CASE data.style = "Struct" ->
                    pat_struct(struct_path,
                               [i \in 1..Len(fs) |->
                                   [ident |-> Unwrap(pieces[i].ident),
                                    pat |-> pieces[i].pat]])
              [] data.style = "Tuple" ->
                    pat_tuple_struct(struct_path,
                                     [i \in 1..Len(fs) |-> pieces[i].pat])
              [] data.style = "Unit" -> pat_path(struct_path)]

-----------------------------------------------------------------------------
(* Method bodies for structs and unions.                                   *)

\* a faulty expand_struct_method_body: the fields of a packed struct are
\* reached by field access as well
expand_struct_method_body_field_access(method, data, type_ident, selflike_args, nonselflike_args, use_temporaries, is_packed) ==
    IF ~(Len(selflike_args) = 1 \/ Len(selflike_args) = 2)
    THEN Expanded(Some("assertion failed: selflike_args.len() == 1 || selflike_args.len() == 2"),
                  new_stmts(<<>>), <<>>)
    ELSE LET selflike_fields == create_struct_field_access_fields(selflike_args, data)
             sub == Struct(data, selflike_fields)
         IN  Expanded(None,
                      call_substructure_method(method, type_ident, nonselflike_args, sub),
                      <<sub>>)

\* a faulty expand_struct_method_body: the assertion on the number of
\* self-like arguments is left out
expand_struct_method_body_no_assert(method, data, type_ident, selflike_args, nonselflike_args, use_temporaries, is_packed) ==
    IF ~is_packed
    THEN LET selflike_fields == create_struct_field_access_fields(selflike_args, data)
             sub == Struct(data, selflike_fields)
         IN  Expanded(None,
                      call_substructure_method(method, type_ident, nonselflike_args, sub),
                      <<sub>>)
    ELSE LET prefixes == [i \in 1..Len(selflike_args) |-> "__self_" \o ToString(i - 1)]
             selflike_fields ==
                 create_struct_pattern_fields(data, prefixes, use_temporaries)
             sub == Struct(data, selflike_fields)
             body == call_substructure_method(method, type_ident, nonselflike_args, sub)
             struct_path == <<"Self">>
             patterns == create_struct_patterns(struct_path, data, prefixes, "Not",
                                                use_temporaries)
             stmts == [i \in 1..Len(selflike_args) |->
                          stmt_let_pat(patterns[i], selflike_args[i])]
         IN  Expanded(None, BlockOrExpr(stmts \o body.stmts, body.expr), <<sub>>)

expand_struct_method_body(method, data, type_ident, selflike_args, nonselflike_args, use_temporaries, is_packed) ==
    IF ~(Len(selflike_args) = 1 \/ Len(selflike_args) = 2)
    THEN Expanded(Some("assertion failed: selflike_args.len() == 1 || selflike_args.len() == 2"),
                  new_stmts(<<>>), <<>>)
    ELSE IF ~is_packed
    THEN LET selflike_fields == create_struct_field_access_fields(selflike_args, data)
             sub == Struct(data, selflike_fields)
         IN  Expanded(None,
                      call_substructure_method(method, type_ident, nonselflike_args, sub),
                      <<sub>>)
    ELSE LET prefixes == [i \in 1..Len(selflike_args) |-> "__self_" \o ToString(i - 1)]
             selflike_fields ==
                 create_struct_pattern_fields(data, prefixes, use_temporaries)
             sub == Struct(data, selflike_fields)
             body == call_substructure_method(method, type_ident, nonselflike_args, sub)
             struct_path == <<"Self">>
             patterns == create_struct_patterns(struct_path, data, prefixes, "Not",
                                                use_temporaries)
             stmts == [i \in 1..Len(selflike_args) |->
                          stmt_let_pat(patterns[i], selflike_args[i])]
         IN  \* the combinator has been called when create_struct_patterns panics
             IF braced_unnamed(data, prefixes)
             THEN Expanded(Some(patterns.msg), new_stmts(<<>>), <<sub>>)
             ELSE Expanded(None, BlockOrExpr(stmts \o body.stmts, body.expr), <<sub>>)

expand_static_struct_method_body(method, data, type_ident, nonselflike_args) ==
    LET sum == summarise_struct(data)
        sub == StaticStruct(data, sum)
    IN  IF IsBug(sum)
        THEN Expanded(Some(sum.msg), new_stmts(<<>>), <<>>)
        ELSE Expanded(None,
                      call_substructure_method(method, type_ident, nonselflike_args, sub),
                      <<sub>>)

-----------------------------------------------------------------------------
(* Method bodies for enums.                                                *)

\* lines 1164-1172: "__self", then "__arg_1", "__arg_2", ...
enum_prefixes(selflike_args) ==
    <<"__self">> \o [i \in 1..(Len(selflike_args) - 1) |-> "__arg_" \o ToString(i)]

\* lines 1177-1183
vi_idents(prefixes) == [i \in 1..Len(prefixes) |-> prefixes[i] \o "_vi"]

is_fieldless(variant) == fields_of(variant.data) = <<>>

\* line 1190: the first variant without fields, if any
first_fieldless(variants) ==
    LET fl == SelectSeq(variants, LAMBDA v : is_fieldless(v))
    IN  IF fl = <<>> THEN None ELSE Some(Head(fl))

\* a faulty filter: every variant gets an arm of its own
arm_indices_all(method, variants) == [i \in 1..Len(variants) |-> i - 1]

\* line 1201: the (0-based) indices of the variants that get an arm of their own
arm_indices(method, variants) ==
    SelectSeq([i \in 1..Len(variants) |-> i - 1],
              LAMBDA i : ~(method.unify_fieldless_variants /\ is_fieldless(variants[i + 1])))

\* a faulty arm_substructure: every arm is given the index 0
arm_substructure_index_zero(variants, prefixes, index) ==
    EnumMatching(0, Len(variants), variants[index + 1],
                 create_struct_pattern_fields(variants[index + 1].data, prefixes, FALSE))

\* lines 1202-1256: the substructure of the arm of the variant at index
arm_substructure(variants, prefixes, index) ==
    EnumMatching(index, Len(variants), variants[index + 1],
                 create_struct_pattern_fields(variants[index + 1].data, prefixes, FALSE))

\* lines 1202-1256: the arm of the variant at index
variant_arm(method, variants, type_ident, prefixes, nonselflike_args, index) ==
    LET variant == variants[index + 1]
        variant_path == <<type_ident, variant.ident>>
        pats == create_struct_patterns(variant_path, variant.data, prefixes, "Not", FALSE)
        subpats == [k \in 1..Len(pats) |-> pat_ref(pats[k])]
        single_pat == IF Len(subpats) = 1 THEN subpats[1] ELSE pat_tuple(subpats)
        sub == arm_substructure(variants, prefixes, index)
        arm_expr == into_expr(call_substructure_method(method, type_ident,
                                                       nonselflike_args, sub))
    IN  arm(single_pat, arm_expr)

\* a faulty default arm: the arm shared by the fieldless variants is left out
default_arm_no_unify(method, variants, type_ident, selflike_args, nonselflike_args) ==
    IF Len(variants) > 1 /\ Len(selflike_args) > 1
    THEN [kind |-> "unreachable", calls |-> <<>>,
          arms |-> <<arm(pat_wild, call_unreachable)>>]
    ELSE [kind |-> "none", calls |-> <<>>, arms |-> <<>>]

\* lines 1259-1283: the default arm.  kind says where it comes from.
default_arm(method, variants, type_ident, selflike_args, nonselflike_args) ==
    LET ff == first_fieldless(variants)
    IN  IF IsSome(ff) /\ method.unify_fieldless_variants
        THEN LET sub == EnumMatching(0, Len(variants), Unwrap(ff), <<>>)
             IN  [kind |-> "unified",
                  calls |-> <<sub>>,
                  arms |-> <<arm(pat_wild,
                                 into_expr(call_substructure_method(
                                     method, type_ident, nonselflike_args, sub)))>>]
        ELSE IF Len(variants) > 1 /\ Len(selflike_args) > 1
        THEN [kind |-> "unreachable", calls |-> <<>>,
              arms |-> <<arm(pat_wild, call_unreachable)>>]
        ELSE [kind |-> "none", calls |-> <<>>, arms |-> <<>>]

\* lines 1314-1340: the let statements binding the discriminants
index_let_stmts(idents, selflike_args) ==
    [i \in 1..Len(idents) |->
        stmt_let(idents[i],
                 call_intrinsic("discriminant_value", <<expr_addr_of(selflike_args[i])>>))]

\* a faulty discriminant_test: the discriminants are not compared at all
discriminant_test_true(idents, n) == expr_bool(TRUE)

\* a faulty discriminant_test: each discriminant is compared with itself
\* instead of with the first
discriminant_test_same_ident(idents, n) ==
    IF n <= 1 THEN expr_bool(TRUE)
    ELSE expr_binary("Eq", expr_ident(idents[n]), expr_ident(idents[n]))

\* a faulty discriminant_test: only the last discriminant is compared with
\* the first
discriminant_test_last_only(idents, n) ==
    IF n <= 1 THEN expr_bool(TRUE)
    ELSE expr_binary("Eq", expr_ident(idents[1]), expr_ident(idents[n]))

\* lines 1318-1340: the test that all discriminants equal the first
RECURSIVE discriminant_test(_, _)
discriminant_test(idents, n) ==
    IF n <= 1 THEN expr_bool(TRUE)
    ELSE LET test == expr_binary("Eq", expr_ident(idents[1]), expr_ident(idents[n]))
         IN  IF n = 2 THEN test
             ELSE expr_binary("And", discriminant_test(idents, n - 1), test)

\* a faulty expand_enum_method_body: the case of an enum without variants is
\* left out, so that the match is built from the arms there are
expand_enum_method_body_no_empty_case(method, variants, type_ident, selflike_args, nonselflike_args) ==
    LET prefixes == enum_prefixes(selflike_args)
        indices == arm_indices(method, variants)
        default == default_arm(method, variants, type_ident, selflike_args,
                               nonselflike_args)
        by_ref == [i \in 1..Len(selflike_args) |-> expr_addr_of(selflike_args[i])]
        match_arg == IF Len(by_ref) = 1 THEN by_ref[1] ELSE expr_tup(by_ref)
    IN  Expanded(None,
                 BlockOrExpr(<<>>,
                     Some(expr_match(match_arg,
                         [j \in 1..Len(indices) |->
                             variant_arm(method, variants, type_ident, prefixes,
                                         nonselflike_args, indices[j])]
                         \o default.arms))),
                 [j \in 1..Len(indices) |-> arm_substructure(variants, prefixes, indices[j])]
                 \o default.calls)

\* a faulty expand_enum_method_body: the discriminants are also bound and
\* tested when the enum has a single variant
expand_enum_method_body_always_test(method, variants, type_ident, selflike_args, nonselflike_args) ==
    LET prefixes == enum_prefixes(selflike_args)
        idents == vi_idents(prefixes)
        catch_all_substructure == EnumNonMatchingCollapsed(idents)
        indices == arm_indices(method, variants)
        default == default_arm(method, variants, type_ident, selflike_args,
                               nonselflike_args)
        match_arms ==
            [j \in 1..Len(indices) |->
                variant_arm(method, variants, type_ident, prefixes, nonselflike_args,
                            indices[j])]
            \o default.arms
        arm_calls ==
            [j \in 1..Len(indices) |-> arm_substructure(variants, prefixes, indices[j])]
            \o default.calls
        by_ref == [i \in 1..Len(selflike_args) |-> expr_addr_of(selflike_args[i])]
    IN  IF Len(variants) >= 1 /\ Len(selflike_args) > 1
        THEN LET arm_expr == into_expr(call_substructure_method(
                                 method, type_ident, nonselflike_args,
                                 catch_all_substructure))
                 all_match == expr_match(expr_tup(by_ref), match_arms)
             IN  Expanded(None,
                          BlockOrExpr(index_let_stmts(idents, selflike_args),
                                      Some(expr_if(discriminant_test(idents, Len(idents)),
                                                   all_match, Some(arm_expr)))),
                          arm_calls \o <<catch_all_substructure>>)
        ELSE IF variants = <<>>
        THEN Expanded(None, BlockOrExpr(<<>>, Some(call_unreachable)), arm_calls)
        ELSE LET match_arg == IF Len(by_ref) = 1 THEN by_ref[1] ELSE expr_tup(by_ref)
             IN  Expanded(None,
                          BlockOrExpr(<<>>, Some(expr_match(match_arg, match_arms))),
                          arm_calls)

expand_enum_method_body(method, variants, type_ident, selflike_args, nonselflike_args) ==
    LET prefixes == enum_prefixes(selflike_args)
        idents == vi_idents(prefixes)
        catch_all_substructure == EnumNonMatchingCollapsed(idents)
        indices == arm_indices(method, variants)
        default == default_arm(method, variants, type_ident, selflike_args,
                               nonselflike_args)
        match_arms ==
            [j \in 1..Len(indices) |->
                variant_arm(method, variants, type_ident, prefixes, nonselflike_args,
                            indices[j])]
            \o default.arms
        arm_calls ==
            [j \in 1..Len(indices) |-> arm_substructure(variants, prefixes, indices[j])]
            \o default.calls
        by_ref == [i \in 1..Len(selflike_args) |-> expr_addr_of(selflike_args[i])]
        \* the arms whose create_struct_patterns panics (line 1485)
        bad == SelectSeq(indices, LAMBDA ix : braced_unnamed(variants[ix + 1].data, prefixes))
    IN  IF bad # <<>>
        THEN \* the arms before it have been built, each with its call of the combinator
             Expanded(Some("a braced struct with unnamed fields in derive"),
                      new_stmts(<<>>),
                      LET before == SelectSeq(indices, LAMBDA ix : ix < Head(bad))
                      IN  [j \in 1..Len(before) |->
                              arm_substructure(variants, prefixes, before[j])])
        ELSE IF Len(variants) > 1 /\ Len(selflike_args) > 1
        THEN LET arm_expr == into_expr(call_substructure_method(
                                 method, type_ident, nonselflike_args,
                                 catch_all_substructure))
                 all_match == expr_match(expr_tup(by_ref), match_arms)
             IN  Expanded(None,
                          BlockOrExpr(index_let_stmts(idents, selflike_args),
                                      Some(expr_if(discriminant_test(idents, Len(idents)),
                                                   all_match, Some(arm_expr)))),
                          arm_calls \o <<catch_all_substructure>>)
        ELSE IF variants = <<>>
        THEN Expanded(None, BlockOrExpr(<<>>, Some(call_unreachable)), arm_calls)
        ELSE LET match_arg == IF Len(by_ref) = 1 THEN by_ref[1] ELSE expr_tup(by_ref)
             IN  Expanded(None,
                          BlockOrExpr(<<>>, Some(expr_match(match_arg, match_arms))),
                          arm_calls)

expand_static_enum_method_body(method, variants, type_ident, nonselflike_args) ==
    LET sums == [i \in 1..Len(variants) |-> summarise_struct(variants[i].data)]
        sum == [i \in 1..Len(variants) |->
                   [ident |-> variants[i].ident,
                    span |-> with_ctxt(variants[i].span, trait_span.ctxt),
                    summary |-> sums[i]]]
        sub == StaticEnum(variants, sum)
    IN  IF \E i \in 1..Len(variants) : IsBug(sums[i])
        THEN Expanded(Some("a struct with named and unnamed fields in generic derive"),
                      new_stmts(<<>>), <<>>)
        ELSE Expanded(None,
                      call_substructure_method(method, type_ident, nonselflike_args, sub),
                      <<sub>>)

\* MethodDef::create_method: the method, with its body as a block
create_method(method, explicit_self, nonself_arg_tys, body) ==
    [ident |-> method.name,
     args |-> (IF IsSome(explicit_self)
               THEN <<[ident |-> "self", ty |-> [t |-> "ImplicitSelf", name |-> "&self"]]>>
               ELSE <<>>) \o nonself_arg_tys,
     body |-> into_block(body)]

-----------------------------------------------------------------------------
(* find_type_parameters: the Visitor over a field type.  The visitor state *)
(* v holds bound_generic_params_stack, type_params and the errors reported.*)

TypeParameter(bound_generic_params, ty) ==
    [bound_generic_params |-> bound_generic_params, ty |-> ty]

RECURSIVE visit_ty(_, _, _)
RECURSIVE visit_tys(_, _, _)
RECURSIVE visit_path(_, _, _)
RECURSIVE visit_bounds(_, _, _)
RECURSIVE walk_ty(_, _, _)
RECURSIVE visit_poly_trait_ref(_, _, _)

\* a faulty visit_mac_call: the default of the Visitor trait, which reports nothing
visit_mac_call_silent(v) == v

\* Visitor::visit_mac_call: reports, and does not walk into the macro
visit_mac_call(v) ==
    [v EXCEPT !.errors = Append(@, "derive cannot be used on items with type macros")]

\* lines 373-382: record the type when it is a path starting with a parameter
record_ty(v, names, ty) ==
    IF ty.t = "Path" /\ ty.segments # <<>> /\ Contains(names, ty.segments[1].ident)
    THEN [v EXCEPT !.type_params =
                       Append(@, TypeParameter(v.bound_generic_params_stack, ty))]
    ELSE v

visit_ty(v, names, ty) == walk_ty(record_ty(v, names, ty), names, ty)

\* a list of types, visited in order
visit_tys(v, names, tys) ==
    IF tys = <<>> THEN v ELSE visit_tys(visit_ty(v, names, Head(tys)), names, Tail(tys))

\* visit::walk_path: the generic arguments of every segment, in order
visit_path(v, names, segments) ==
    IF segments = <<>> THEN v
    ELSE visit_path(visit_tys(v, names, Head(segments).args), names, Tail(segments))

\* the bounds of a trait object, in order
visit_bounds(v, names, bounds) ==
    IF bounds = <<>> THEN v
    ELSE visit_bounds(visit_poly_trait_ref(v, names, Head(bounds)), names, Tail(bounds))

\* visit::walk_ty
walk_ty(v, names, ty) ==
    CASE ty.t = "Path" ->
            visit_path(IF IsSome(ty.qself) THEN visit_ty(v, names, Unwrap(ty.qself)) ELSE v,
                       names, ty.segments)
      [] ty.t \in {"Rptr", "Tup"} -> visit_tys(v, names, ty.tys)
      [] ty.t = "MacCall" -> visit_mac_call(v)
      [] ty.t = "TraitObject" -> visit_bounds(v, names, ty.bounds)

\* a faulty visit_poly_trait_ref: the stack is not truncated on the way out
visit_poly_trait_ref_no_truncate(v, names, trait_ref) ==
    LET pushed_v == [v EXCEPT !.bound_generic_params_stack =
                                  @ \o trait_ref.bound_generic_params]
    IN  visit_path(pushed_v, names, trait_ref.segments)

\* Visitor::visit_poly_trait_ref: push the bound's generic parameters, walk
\* the trait reference, truncate the stack to its length at entry
visit_poly_trait_ref(v, names, trait_ref) ==
    LET stack_len == Len(v.bound_generic_params_stack)
        pushed_v == [v EXCEPT !.bound_generic_params_stack =
                                  @ \o trait_ref.bound_generic_params]
        walked == visit_path(pushed_v, names, trait_ref.segments)
    IN  [walked EXCEPT !.bound_generic_params_stack = SubSeq(@, 1, stack_len)]

find_type_parameters(ty, ty_param_names) ==
    visit_ty([bound_generic_params_stack |-> <<>>, type_params |-> <<>>, errors |-> <<>>],
             ty_param_names, ty)

-----------------------------------------------------------------------------
(* TraitDef and create_derived_impl.                                       *)

\* TraitDef: path is the trait's name, generics the extra type parameters of
\* the impl (ty::Bounds, a list of (name, bounds))
TraitDef(path, additional_bounds, generics, supports_unions, mdefs, attributes, associated_types) ==
    [path |-> path, additional_bounds |-> additional_bounds, generics |-> generics,
     supports_unions |-> supports_unions, methods |-> mdefs, attributes |-> attributes,
     associated_types |-> associated_types]

\* Bounds::to_generics: one type parameter per (name, bounds), no where clause
to_generics(bounds) ==
    Generics([i \in 1..Len(bounds) |->
                 GenericParam(bounds[i].name, "Type", bounds[i].bounds, None)],
             <<>>)

\* a faulty derived_param: the declared bounds of a type parameter come
\* first and the derived trait last
derived_param_declared_first(trait, param) ==
    CASE param.kind = "Lifetime" -> param
      [] param.kind = "Type" ->
            GenericParam(param.ident, "Type",
                         param.bounds \o trait.additional_bounds \o <<trait.path>>, None)
      [] param.kind = "Const" ->
            [param EXCEPT !.kw_span = with_ctxt(@, trait_span.ctxt), !.default = None]

\* a faulty derived_param: a const parameter is cloned as it is
derived_param_verbatim(trait, param) ==
    CASE param.kind = "Lifetime" -> param
      [] param.kind = "Type" ->
            GenericParam(param.ident, "Type",
                         trait.additional_bounds \o <<trait.path>> \o param.bounds, None)
      [] param.kind = "Const" -> param

\* lines 597-629: the parameter of the impl made from a parameter of the type
derived_param(trait, param) ==
    CASE param.kind = "Lifetime" -> param
      [] param.kind = "Type" ->
            GenericParam(param.ident, "Type",
                         trait.additional_bounds \o <<trait.path>> \o param.bounds, None)
      [] param.kind = "Const" ->
            [param EXCEPT !.kw_span = with_ctxt(@, trait_span.ctxt), !.default = None]

\* lines 632-657: a where predicate of the type, with the span's context changed
derived_clause(clause) == [clause EXCEPT !.span = with_ctxt(@, trait_span.ctxt)]

\* a faulty skip test: nothing counts as already handled
already_handled_never(ty, ty_param_names) == FALSE

\* lines 676-682: the type was already handled by the parameter's own bound
already_handled(ty, ty_param_names) ==
    /\ ty.t = "Path"
    /\ Len(ty.segments) = 1
    /\ Contains(ty_param_names, ty.segments[1].ident)

\* a faulty field_predicates: the derived trait comes before the additional
\* bounds
field_predicates_trait_first(trait, found, ty_param_names) ==
    LET kept == SelectSeq(found, LAMBDA tp : ~already_handled(tp.ty, ty_param_names))
    IN  [i \in 1..Len(kept) |->
            WherePredicate("BoundPredicate", trait_span, kept[i].bound_generic_params,
                           kept[i].ty, <<trait.path>> \o trait.additional_bounds)]

\* lines 674-701: the predicates added for the type parameters found in one field type
field_predicates(trait, found, ty_param_names) ==
    LET kept == SelectSeq(found, LAMBDA tp : ~already_handled(tp.ty, ty_param_names))
    IN  [i \in 1..Len(kept) |->
            WherePredicate("BoundPredicate", trait_span, kept[i].bound_generic_params,
                           kept[i].ty, trait.additional_bounds \o <<trait.path>>)]

\* lines 659-704: the inference over all field types: predicates and errors
infer_bounds(trait, params, field_tys) ==
    LET ty_params == SelectSeq(params, LAMBDA q : q.kind = "Type")
        ty_param_names == [i \in 1..Len(ty_params) |-> ty_params[i].ident]
        found == [i \in 1..Len(field_tys) |->
                     find_type_parameters(field_tys[i], ty_param_names)]
    IN  IF ty_params = <<>>
        THEN [predicates |-> <<>>, errors |-> <<>>]
        ELSE [predicates |->
                  Flatten([i \in 1..Len(field_tys) |->
                              field_predicates(trait, found[i].type_params,
                                               ty_param_names)]),
              errors |-> Flatten([i \in 1..Len(field_tys) |-> found[i].errors])]

\* create_derived_impl: the impl item and the errors reported on the way
create_derived_impl(trait, type_ident, generics, field_tys, mths) ==
    LET own == to_generics(trait.generics)
        params == own.params
                  \o [i \in 1..Len(generics.params) |->
                         derived_param(trait, generics.params[i])]
        inferred == infer_bounds(trait, params, field_tys)
        predicates == own.predicates
                      \o [i \in 1..Len(generics.predicates) |->
                             derived_clause(generics.predicates[i])]
                      \o inferred.predicates
        self_params == [i \in 1..Len(generics.params) |->
                           [kind |-> generics.params[i].kind,
                            ident |-> generics.params[i].ident]]
        a == <<Attribute("automatically_derived", <<>>),
               Attribute("allow", <<MetaItem("unused_qualifications", <<>>)>>)>>
             \o trait.attributes
        \* lines 564-590: one type alias for each associated type of the trait
        associated_types ==
            [i \in 1..Len(trait.associated_types) |->
                [ident |-> trait.associated_types[i].ident,
                 kind |-> "TyAlias",
                 ty |-> Some(to_ty(trait.associated_types[i].ty, type_ident))]]
    IN  [item |-> [ident |-> "",
                   attrs |-> a,
                   generics |-> Generics(params, predicates),
                   of_trait |-> Some(trait.path),
                   self_ty |-> [ident |-> type_ident, args |-> self_params],
                   items |-> mths \o associated_types],
         errors |-> inferred.errors]

-----------------------------------------------------------------------------
(* The item and the first lines of expand_ext.                             *)

\* ast::Item: kind is "Struct", "Enum" or "Union"; def is the VariantData of
\* a struct or union and the sequence of variants of an enum; derive_copy is
\* what cx.resolver.has_derive_copy answers for it
Item(ident, kind, def, generics, attrs, derive_copy) ==
    [ident |-> ident, kind |-> kind, def |-> def, generics |-> generics,
     attrs |-> attrs, derive_copy |-> derive_copy]

\* attr::find_repr_attrs: the representation hints of one attribute, one for
\* each item of a repr list that names a hint; packed alone is packed(1), and
\* an attribute of another name gives none
find_repr_attrs(attr) ==
    LET repr_hints ==
            [C |-> "ReprC", packed |-> "ReprPacked", align |-> "ReprAlign",
             transparent |-> "ReprTransparent", simd |-> "ReprSimd", u8 |-> "ReprInt"]
        known == IF attr.name # "repr" THEN <<>>
                 ELSE SelectSeq(attr.items, LAMBDA mi : mi.name \in DOMAIN repr_hints)
    IN  [j \in 1..Len(known) |->
            [repr |-> repr_hints[known[j].name],
             arg |-> IF known[j].args = <<>>
                     THEN (IF known[j].name = "packed" THEN <<"1">> ELSE <<>>)
                     ELSE known[j].args]]

\* lines 439-446: some attribute of the item has a ReprPacked(_) among its hints
is_packed(it) ==
    \E i \in 1..Len(it.attrs) :
        \E j \in 1..Len(find_repr_attrs(it.attrs[i])) :
            find_repr_attrs(it.attrs[i])[j].repr = "ReprPacked"

\* lines 447-455
has_no_type_params(it) ==
    ~\E i \in 1..Len(it.generics.params) : it.generics.params[i].kind = "Type"

\* a faulty use_temporaries: the type must have no generic parameter at all
use_temporaries_no_params(it) ==
    is_packed(it) /\ it.generics.params = <<>> /\ it.derive_copy

\* lines 456-458
use_temporaries(it) == is_packed(it) /\ has_no_type_params(it) /\ it.derive_copy

\* a faulty test: supports_unions is not looked at
unsupported_never(it, trait) == FALSE

\* line 480 and 490: a union whose trait does not support unions is refused
unsupported(it, trait) == it.kind = "Union" /\ ~trait.supports_unions

\* expand_struct_def line 772, expand_enum_def lines 826-830
field_tys(it) ==
    IF it.kind = "Enum"
    THEN Flatten([i \in 1..Len(it.def) |->
                     [j \in 1..Len(fields_of(it.def[i].data)) |->
                         fields_of(it.def[i].data)[j].ty]])
    ELSE [j \in 1..Len(fields_of(it.def)) |-> fields_of(it.def)[j].ty]

\* a faulty closure: from_scratch is ignored, only a method without receiver
\* gets the static body
expand_body_receiver_only(it, method, scratch) ==
    LET d == extract_arg_details(method, it.ident)
    IN  IF IsSome(d.bug)
        THEN Expanded(d.bug, new_stmts(<<>>), <<>>)
        ELSE IF it.kind = "Enum"
        THEN IF is_static(method)
             THEN expand_static_enum_method_body(method, it.def, it.ident,
                                                 d.nonselflike_args)
             ELSE expand_enum_method_body(method, it.def, it.ident, d.selflike_args,
                                          d.nonselflike_args)
        ELSE IF is_static(method)
             THEN expand_static_struct_method_body(method, it.def, it.ident,
                                                   d.nonselflike_args)
             ELSE expand_struct_method_body(method, it.def, it.ident, d.selflike_args,
                                            d.nonselflike_args, use_temporaries(it),
                                            is_packed(it))

\* the closure mapped over the methods in expand_struct_def (lines 778-812)
\* and expand_enum_def (lines 835-867): the body, or the panic
expand_body(it, method, scratch) ==
    LET d == extract_arg_details(method, it.ident)
    IN  IF IsSome(d.bug)
        THEN Expanded(d.bug, new_stmts(<<>>), <<>>)
        ELSE IF it.kind = "Enum"
        THEN IF scratch \/ is_static(method)
             THEN expand_static_enum_method_body(method, it.def, it.ident,
                                                 d.nonselflike_args)
             ELSE expand_enum_method_body(method, it.def, it.ident, d.selflike_args,
                                          d.nonselflike_args)
        ELSE IF scratch \/ is_static(method)
             THEN expand_static_struct_method_body(method, it.def, it.ident,
                                                   d.nonselflike_args)
             ELSE expand_struct_method_body(method, it.def, it.ident, d.selflike_args,
                                            d.nonselflike_args, use_temporaries(it),
                                            is_packed(it))

\* lines 499-515: the attributes of the pushed item
lint_attrs == {"allow", "warn", "deny", "forbid", "stable", "unstable"}

\* a faulty pushed_attrs: every attribute of the item is copied
pushed_attrs_unfiltered(new_attrs, item_attrs) == new_attrs \o item_attrs

pushed_attrs(new_attrs, item_attrs) ==
    new_attrs \o SelectSeq(item_attrs, LAMBDA a : a.name \in lint_attrs)

-----------------------------------------------------------------------------
(* Running generated code.  A runtime value of the enum is the ident of    *)
(* the variant it holds; references are transparent.  Run follows the      *)
(* generated if and match to the expression that is reached: a combinator  *)
(* marker or the unreachable marker.                                       *)

\* the position of the variant named ident: its discriminant
discriminant_value(variants, ident) ==
    CHOOSE i \in 0..(Len(variants) - 1) : variants[i + 1].ident = ident

RECURSIVE Eval(_, _, _)
Eval(x, env, variants) ==
    CASE x.e = "path" -> env[x.name]
      [] x.e \in {"deref", "addr_of"} -> Eval(x.of, env, variants)
      [] x.e = "tup" -> [i \in 1..Len(x.elems) |-> Eval(x.elems[i], env, variants)]
      [] x.e = "intrinsic" ->
            discriminant_value(variants, Eval(x.elems[1], env, variants))
      [] x.e = "bool" -> x.val
      [] x.e = "binary" /\ x.op = "Eq" ->
            Eval(x.lhs, env, variants) = Eval(x.rhs, env, variants)
      [] x.e = "binary" /\ x.op = "And" ->
            Eval(x.lhs, env, variants) /\ Eval(x.rhs, env, variants)

\* whether the pattern matches the value
RECURSIVE Matches(_, _)
Matches(pat, val) ==
    CASE pat.p \in {"wild", "ident"} -> TRUE
      [] pat.p = "ref" -> Matches(pat.subpats[1], val)
      [] pat.p = "tuple" ->
            \A i \in 1..Len(pat.subpats) : Matches(pat.subpats[i], val[i])
      [] pat.p \in {"struct", "tuple_struct", "path"} -> pat.path[2] = val

\* the environment after a let statement (only ident patterns bind values
\* the generated control flow reads)
Bind(env, stmt, variants) ==
    IF stmt.pat.p = "ident"
    THEN [n \in DOMAIN env \cup {stmt.pat.name} |->
             IF n = stmt.pat.name THEN Eval(stmt.expr, env, variants) ELSE env[n]]
    ELSE env

RECURSIVE Run(_, _, _)
RECURSIVE RunBlock(_, _, _, _)

Run(x, env, variants) ==
    CASE x.e = "if" ->
            IF Eval(x.cond, env, variants)
            THEN Run(x.then, env, variants)
            ELSE Run(Unwrap(x.els), env, variants)
      [] x.e = "match" ->
            LET val == Eval(x.arg, env, variants)
                hits == SelectSeq(x.arms, LAMBDA a : Matches(a.pat, val))
            IN  IF hits = <<>> THEN [e |-> "no_arm"] ELSE Run(Head(hits).body, env, variants)
      [] x.e = "block" -> RunBlock(x.stmts, env, variants, [e |-> "unit"])
      [] OTHER -> x

\* the statements of a block in order; last is what the latest expression
\* statement reached
RunBlock(stmts, env, variants, last) ==
    IF stmts = <<>> THEN last
    ELSE IF Head(stmts).s = "let"
    THEN RunBlock(Tail(stmts), Bind(env, Head(stmts), variants), variants, last)
    ELSE RunBlock(Tail(stmts), env, variants, Run(Head(stmts).expr, env, variants))

\* the names of the parameters that hold a value of the enum, receiver first
selflike_names(method) ==
    LET sel == SelectSeq(method.nonself_args,
                         LAMBDA a : ArgClass(method, a.ty) = "selflike")
    IN  <<"self">> \o [j \in 1..Len(sel) |-> sel[j].name]

-----------------------------------------------------------------------------
(* The actions of expand_ext.                                              *)

\* expand_ext, lines 479-493: a union the trait cannot be derived for
ExpandExtUnsupported ==
    /\ pc = "expand_ext"
    /\ unsupported(item, trait_def)
    /\ diagnostics' = Append(diagnostics,
                             [level |-> "error",
                              msg |-> "this trait cannot be derived for unions"])
    /\ pc' = "returned"
    /\ UNCHANGED <<item, trait_def, from_scratch, pushed, methods, newitem, exec,
                   struct_def, summary, use_foldl, substructure, fold_result, f_calls>>
    /\ UNCHANGED coerce_vars

\* expand_struct_def / expand_enum_def: the next method of the trait
ExpandMethod ==
    /\ pc \in {"expand_ext", "methods"}
    /\ ~unsupported(item, trait_def)
    /\ Len(methods) < Len(trait_def.methods)
    /\ LET method == trait_def.methods[Len(methods) + 1]
           d == extract_arg_details(method, item.ident)
           x == expand_body(item, method, from_scratch)
       IN  IF IsSome(x.bug)
           THEN /\ pc' = "ice"
                /\ diagnostics' = Append(diagnostics,
                                         [level |-> "bug", msg |-> Unwrap(x.bug)])
                /\ UNCHANGED methods
           ELSE /\ pc' = "methods"
                /\ methods' = Append(methods,
                                     [body |-> x.body, calls |-> x.calls,
                                      body_selflike_args |-> d.selflike_args,
                                      body_nonselflike_args |-> d.nonselflike_args,
                                      method |-> create_method(method, d.explicit_self,
                                                               d.nonself_arg_tys, x.body)])
                /\ UNCHANGED diagnostics
    /\ UNCHANGED <<item, trait_def, from_scratch, pushed, newitem, exec,
                   struct_def, summary, use_foldl, substructure, fold_result, f_calls>>
    /\ UNCHANGED coerce_vars

\* expand_struct_def line 815 / expand_enum_def line 870
CreateDerivedImpl ==
    /\ pc \in {"expand_ext", "methods"}
    /\ ~unsupported(item, trait_def)
    /\ Len(methods) = Len(trait_def.methods)
    /\ LET r == create_derived_impl(trait_def, item.ident, item.generics,
                                    field_tys(item),
                                    [i \in 1..Len(methods) |-> methods[i].method])
       IN  /\ newitem' = Some(r.item)
           /\ diagnostics' = diagnostics
                             \o [i \in 1..Len(r.errors) |->
                                    [level |-> "error", msg |-> r.errors[i]]]
    /\ pc' = "derived"
    /\ UNCHANGED <<item, trait_def, from_scratch, pushed, methods, exec,
                   struct_def, summary, use_foldl, substructure, fold_result, f_calls>>
    /\ UNCHANGED coerce_vars

\* expand_ext, lines 497-516: the lint attributes are kept and the item pushed
Push ==
    /\ pc = "derived"
    /\ pushed' = Append(pushed,
                        [Unwrap(newitem) EXCEPT
                            !.attrs = pushed_attrs(Unwrap(newitem).attrs, item.attrs)])
    /\ pc' = "returned"
    /\ UNCHANGED <<item, trait_def, from_scratch, diagnostics, methods, newitem, exec,
                   struct_def, summary, use_foldl, substructure, fold_result, f_calls>>
    /\ UNCHANGED coerce_vars

\* A call of a generated instance method of an enum: every self-like
\* parameter holds some variant of the enum.
Execute ==
    /\ pc = "returned"
    /\ pushed # <<>>
    /\ exec = None
    /\ item.kind = "Enum"
    /\ ~from_scratch
    /\ \E m \in 1..Len(trait_def.methods) :
          /\ ~is_static(trait_def.methods[m])
          /\ LET names == selflike_names(trait_def.methods[m])
                 idents == {item.def[i].ident : i \in 1..Len(item.def)}
             IN  \E args \in [1..Len(names) -> idents] :
                    LET env == [n \in {names[k] : k \in 1..Len(names)} |->
                                   args[CHOOSE k \in 1..Len(names) : names[k] = n]]
                    IN  exec' = Some([m |-> m, args |-> args,
                                      ran |-> RunBlock(pushed[1].items[m].body, env,
                                                       item.def, [e |-> "unit"])])
    /\ UNCHANGED <<pc, item, trait_def, from_scratch, diagnostics, pushed, methods,
                   newitem, struct_def, summary, use_foldl, substructure, fold_result,
                   f_calls>>
    /\ UNCHANGED coerce_vars

-----------------------------------------------------------------------------
(* The inputs the specifications draw from.                                *)

i32 == TyPath(None, <<PathSegment("i32", <<>>)>>)

\* a well-formed field list: n fields of the given types, named x0, x1, ...
\* in a braced struct and unnamed in a tuple struct; base places the spans
MkData(style, n, tys, base) ==
    VariantData(style,
                [j \in 1..n |->
                    FieldDef(IF style = "Struct" THEN Some("x" \o ToString(j - 1)) ELSE None,
                             tys[j], Span(base + j, "item"))])

\* the field lists the parser can produce, all fields of type i32
Shapes ==
    {[style |-> "Unit", n |-> 0]}
    \cup {[style |-> st, n |-> n] : st \in {"Struct", "Tuple"}, n \in 0..MaxFields}

ShapeData(sh, base) == MkData(sh.style, sh.n, [j \in 1..sh.n |-> i32], base)

VariantNames == <<"A", "B", "C", "D", "E">>

\* the enum whose i-th variant has the i-th shape
MkEnum(shapes) ==
    [i \in 1..Len(shapes) |->
        Variant(VariantNames[i], Span(10 * i, "item"), ShapeData(shapes[i], 10 * i))]

\* the shapes of the variants of the enums: unit, one unnamed field,
\* MaxFields unnamed fields
VariantShapes ==
    {[style |-> "Unit", n |-> 0], [style |-> "Tuple", n |-> 1],
     [style |-> "Tuple", n |-> MaxFields]}

\* and, for enums of one or two variants: braced variants and the empty
\* tuple variant
OtherVariantShapes ==
    {[style |-> "Struct", n |-> 0], [style |-> "Struct", n |-> 1],
     [style |-> "Tuple", n |-> 0]}

EnumDefs ==
    UNION {{MkEnum(shs) : shs \in [1..n -> VariantShapes]} : n \in 0..MaxVariants}
    \cup UNION {{MkEnum(shs) : shs \in [1..n -> OtherVariantShapes]} : n \in 1..2}

NoGenerics == Generics(<<>>, <<>>)

\* attribute lists of items: none, repr(packed), repr(C, packed(2)), and lint
\* attributes among others, one of them a repr list without packed
PlainAttrs == <<>>

PackedAttrs == <<Attribute("repr", <<MetaItem("packed", <<>>)>>)>>

PackedListAttrs ==
    <<Attribute("inline", <<>>),
      Attribute("repr", <<MetaItem("C", <<>>), MetaItem("packed", <<"2">>)>>)>>

LintAttrs ==
    <<Attribute("allow", <<MetaItem("dead_code", <<>>)>>),
      Attribute("doc", <<MetaItem("hidden", <<>>)>>),
      Attribute("deny", <<MetaItem("missing_docs", <<>>)>>),
      Attribute("repr", <<MetaItem("C", <<>>), MetaItem("align", <<"8">>)>>),
      Attribute("stable", <<MetaItem("rust1", <<>>)>>)>>

EnumItems ==
    {Item("E", "Enum", def, NoGenerics, attrs, FALSE) :
        def \in EnumDefs, attrs \in {PlainAttrs}}

StructItems ==
    {Item("S", "Struct", ShapeData(sh, 0), NoGenerics, attrs, copy) :
        sh \in Shapes, attrs \in {PlainAttrs, PackedAttrs, LintAttrs}, copy \in BOOLEAN}

\* a union has at least one field, all named
UnionItems ==
    {Item("U", "Union", ShapeData(sh, 0), NoGenerics, attrs, copy) :
        sh \in {x \in Shapes : x.style = "Struct" /\ x.n >= 1},
        attrs \in {PlainAttrs, PackedAttrs}, copy \in BOOLEAN}

\* the parameters of a method: k parameters of type &Self, then, with
\* plain, one of another type
MethodArgs(k, plain) ==
    [i \in 1..k |-> [ty |-> Ref(Self_), name |-> "other" \o ToString(i)]]
    \o (IF plain THEN <<[ty |-> Ref(Path("H")), name |-> "state"]>> ELSE <<>>)

\* the methods: with or without receiver, with up to MaxOtherSelf &Self
\* parameters; the combinator that returns statements only takes a further
\* parameter (as Hash::hash takes its state)
MethodDefs ==
    {MethodDef("m", es, MethodArgs(k, c = "new_stmts"), unify, c) :
        es \in BOOLEAN, k \in 0..MaxOtherSelf, unify \in BOOLEAN, c \in Combinators}

\* traits with no method (a marker trait) or one method
TraitDefs(supports_unions) ==
    {TraitDef("Tr", <<>>, <<>>, supports_unions, mdefs, <<Attribute("inline", <<>>)>>, <<>>) :
        mdefs \in {<<>>} \cup {<<m>> : m \in MethodDefs}}

Inputs ==
    (EnumItems \X TraitDefs(FALSE))
    \cup (StructItems \X TraitDefs(FALSE))
    \cup (UnionItems \X (TraitDefs(FALSE) \cup TraitDefs(TRUE)))

\* the variables of the coercions while another operation is modelled
IdleCoerce ==
    /\ block_or_expr = new_stmts(<<>>)
    /\ as_block = None
    /\ as_expr = None

\* the variables of summarise_struct and cs_fold while expand_ext is modelled
IdleHelpers ==
    /\ IdleCoerce
    /\ struct_def = VariantData("Unit", <<>>)
    /\ summary = None
    /\ use_foldl = FALSE
    /\ substructure = Substructure("S", <<>>, Struct(VariantData("Unit", <<>>), <<>>))
    /\ fold_result = None
    /\ f_calls = <<>>

\* expand_ext is called on an input
InitExpand(inputs) ==
    /\ pc = "expand_ext"
    /\ \E in \in inputs : item = in[1] /\ trait_def = in[2]
    /\ from_scratch \in BOOLEAN
    /\ diagnostics = <<>>
    /\ pushed = <<>>
    /\ methods = <<>>
    /\ newitem = None
    /\ exec = None

Init == InitExpand(Inputs) /\ IdleHelpers

Next ==
    \/ ExpandExtUnsupported
    \/ ExpandMethod
    \/ CreateDerivedImpl
    \/ Push
    \/ Execute

Spec == Init /\ [][Next]_vars

-----------------------------------------------------------------------------
(* SpecImpl: expand_ext on generic items whose fields have varied types.   *)

TyParam(name) == TyPath(None, <<PathSegment(name, <<>>)>>)

\* Vec<x>
TyVec(x) == TyPath(None, <<PathSegment("Vec", <<x>>)>>)

\* param::assoc
TyProj(param, assoc) == TyPath(None, <<PathSegment(param, <<>>), PathSegment(assoc, <<>>)>>)

\* <q as tr>::assoc
TyQPath(q, tr, assoc) ==
    TyPath(Some(q), <<PathSegment(tr, <<>>), PathSegment(assoc, <<>>)>>)

\* Box<dyn for<'b> Fn(x)>
TyBoxFn(x) ==
    TyPath(None,
           <<PathSegment("Box",
                         <<TyTraitObject(<<PolyTraitRef(<<"'b">>,
                                                        <<PathSegment("Fn", <<x>>)>>)>>)>>)>>)

\* dyn for<'b> Fn(x) + for<'c> Fn(Box<dyn for<'d> Fn(x)>, y)
TyDynFns(x, y) ==
    TyTraitObject(<<PolyTraitRef(<<"'b">>, <<PathSegment("Fn", <<x>>)>>),
                    PolyTraitRef(<<"'c">>,
                                 <<PathSegment("Fn",
                                     <<TyPath(None,
                                         <<PathSegment("Box",
                                             <<TyTraitObject(
                                                 <<PolyTraitRef(<<"'d">>,
                                                     <<PathSegment("Fn", <<x>>)>>)>>)>>)>>),
                                       y>>)>>)>>)

FieldTypes ==
    {TyDynFns(TyProj("T", "Item"), TyProj("U", "Item")), i32, TyParam("T"), TyVec(TyParam("T")), TyProj("T", "Item"),
     TyVec(TyProj("T", "Item")), TyRptr(TyParam("T")), TyMacCall, TyVec(TyMacCall),
     TyTup(<<TyParam("T"), TyProj("U", "Item")>>), TyQPath(TyParam("T"), "Iterator", "Item"),
     TyBoxFn(TyRptr(TyProj("T", "Item")))}

LifetimeParam == GenericParam("'a", "Lifetime", <<>>, None)

\* const N: usize = 3
ConstParam ==
    [ident |-> "N", kind |-> "Const", bounds |-> <<>>, default |-> Some("3"),
     ty |-> "usize", kw_span |-> Span(7, "item")]

\* the generics of the typed items: <T>, <'a, T: Bound, U, const N: usize = 3>
\* where T: Wh, and <'a, const N: usize = 3, const M: usize>
GenericsChoices ==
    {Generics(<<GenericParam("T", "Type", <<>>, None)>>, <<>>),
     Generics(<<LifetimeParam, GenericParam("T", "Type", <<"Bound">>, None),
                GenericParam("U", "Type", <<>>, None), ConstParam>>,
              <<WherePredicate("BoundPredicate", Span(5, "item"), <<>>, TyParam("T"),
                               <<"Wh">>)>>),
     Generics(<<LifetimeParam, ConstParam,
                [ConstParam EXCEPT !.ident = "M", !.default = None,
                                   !.kw_span = Span(8, "item")]>>,
              <<>>)}

TypedData == 
    UNION {{MkData(st, n, tys, 0) : tys \in [1..n -> FieldTypes], st \in {"Struct"}} :
              n \in 1..MaxTypedFields}

TypedItems ==
    {Item("S", "Struct", d, g, attrs, TRUE) :
        d \in TypedData, g \in GenericsChoices, attrs \in {LintAttrs, PackedAttrs}}
    \cup {Item("U", "Union", d, g, PlainAttrs, TRUE) :
             d \in {x \in TypedData : Len(x.fields) = 1}, g \in GenericsChoices}
    \cup {Item("E", "Enum",
               <<Variant("A", Span(10, "item"), VariantData("Unit", <<>>)),
                 Variant("B", Span(20, "item"), d)>>, g, PlainAttrs, FALSE) :
             d \in {x \in TypedData : Len(x.fields) = 1}, g \in GenericsChoices}
    \cup {Item("S", "Struct", d, g, PackedListAttrs, copy) :
             d \in {x \in TypedData : Len(x.fields) = 1},
             g \in GenericsChoices \cup {NoGenerics}, copy \in BOOLEAN}
    \cup {Item("E", "Enum", <<Variant("B", Span(20, "item"), d)>>, g, PackedAttrs, TRUE) :
             d \in {x \in TypedData : Len(x.fields) = 1},
             g \in GenericsChoices \cup {NoGenerics}}

\* the traits of the typed items: with and without additional bounds and
\* extra generic parameters of the impl; one method, eq-like
TypedTraitDefs ==
    {TraitDef("Tr", ab, g, su,
              <<MethodDef("m", TRUE, MethodArgs(1, FALSE), FALSE, "new_expr")>>,
              <<Attribute("inline", <<>>)>>, <<>>) :
        ab \in {<<>>, <<"B1">>},
        g \in {<<>>, <<[name |-> "D", bounds |-> <<"Decoder">>]>>},
        su \in BOOLEAN}

InitImpl ==
    /\ InitExpand(TypedItems \X TypedTraitDefs)
    /\ ~from_scratch
    /\ IdleHelpers

SpecImpl == InitImpl /\ [][Next]_vars

-----------------------------------------------------------------------------
(* SpecSummarise: summarise_struct on every field list, well-formed or not.*)

\* the variables of expand_ext while a helper is modelled
IdleExpand ==
    /\ IdleCoerce
    /\ item = Item("S", "Struct", VariantData("Unit", <<>>), NoGenerics, <<>>, FALSE)
    /\ trait_def = TraitDef("Tr", <<>>, <<>>, FALSE, <<>>, <<>>, <<>>)
    /\ from_scratch = FALSE
    /\ diagnostics = <<>>
    /\ pushed = <<>>
    /\ methods = <<>>
    /\ newitem = None
    /\ exec = None

\* field lists of up to MaxSumFields fields, each unnamed or named a or b
SumFieldLists ==
    UNION {{[j \in 1..n |-> FieldDef(ids[j], i32, Span(j, "item"))] :
               ids \in [1..n -> {None, Some("a"), Some("b")}]} : n \in 0..MaxSumFields}

SumInputs ==
    {VariantData(st, fs) : st \in {"Struct", "Tuple"}, fs \in SumFieldLists}
    \cup {VariantData("Unit", <<>>)}

InitSummarise ==
    /\ pc = "summarise_struct"
    /\ struct_def \in SumInputs
    /\ summary = None
    /\ use_foldl = FALSE
    /\ substructure = Substructure("S", <<>>, Struct(VariantData("Unit", <<>>), <<>>))
    /\ fold_result = None
    /\ f_calls = <<>>
    /\ IdleExpand

Summarise ==
    /\ pc = "summarise_struct"
    /\ LET r == summarise_struct(struct_def)
       IN  IF IsBug(r)
           THEN /\ pc' = "ice"
                /\ diagnostics' = Append(diagnostics, [level |-> "bug", msg |-> r.msg])
                /\ UNCHANGED summary
           ELSE /\ pc' = "summarised"
                /\ summary' = Some(r)
                /\ UNCHANGED diagnostics
    /\ UNCHANGED <<item, trait_def, from_scratch, pushed, methods, newitem,
                   exec, struct_def, use_foldl, substructure, fold_result, f_calls>>
    /\ UNCHANGED coerce_vars

NextSummarise == Summarise

SpecSummarise == InitSummarise /\ [][NextSummarise]_vars

-----------------------------------------------------------------------------
(* SpecFold: cs_fold on the substructures the engine hands to combinators. *)

\* structs of 0..MaxFoldFields fields and the enums, expanded for methods
\* with one to three self-like arguments and for a static method
FoldItems ==
    {Item("S", "Struct", MkData(st, n, [j \in 1..n |-> i32], 0), NoGenerics, attrs, FALSE) :
        st \in {"Struct", "Tuple"}, n \in 0..MaxFoldFields,
        attrs \in {PlainAttrs, PackedAttrs}}
    \cup {it \in EnumItems : Len(it.def) <= 2}

FoldMethods ==
    {MethodDef("m", es, MethodArgs(k, FALSE), unify, "new_expr") :
        es \in BOOLEAN, k \in 0..1, unify \in BOOLEAN}

\* every Substructure some combinator call of these expansions receives
FoldInputs ==
    UNION {LET x == expand_body(it, m, FALSE)
               d == extract_arg_details(m, it.ident)
           IN  {Substructure(it.ident, d.nonselflike_args, x.calls[i]) :
                   i \in 1..Len(x.calls)} :
           it \in FoldItems, m \in FoldMethods}

InitFold ==
    /\ pc = "cs_fold"
    /\ use_foldl \in BOOLEAN
    /\ substructure \in FoldInputs
    /\ fold_result = None
    /\ f_calls = <<>>
    /\ struct_def = VariantData("Unit", <<>>)
    /\ summary = None
    /\ IdleExpand

CsFold ==
    /\ pc = "cs_fold"
    /\ LET r == cs_fold(use_foldl, substructure)
       IN  /\ fold_result' = r.result
           /\ f_calls' = r.calls
           /\ pc' = IF IsSome(r.bug) THEN "ice" ELSE "folded"
           /\ diagnostics' = IF IsSome(r.bug)
                             THEN Append(diagnostics,
                                         [level |-> "bug", msg |-> Unwrap(r.bug)])
                             ELSE diagnostics
    /\ UNCHANGED <<item, trait_def, from_scratch, pushed, methods, newitem,
                   exec, struct_def, summary, use_foldl, substructure>>
    /\ UNCHANGED coerce_vars

NextFold == CsFold

SpecFold == InitFold /\ [][NextFold]_vars

-----------------------------------------------------------------------------
(* SpecCoerce: into_block and into_expr on every BlockOrExpr.  Both take   *)
(* the value by move, so each is called at most once on the value.         *)

\* every BlockOrExpr of up to MaxStmts statements, built by new_stmts,
\* new_expr or new_mixed; the statements are a let statement and an
\* expression statement, the trailing expressions a path and an empty
\* block expression
BlockOrExprs ==
    LET stmts == {stmt_let_pat(pat_ident("ByValue", "a"), expr_ident("x")),
                  stmt_expr(expr_ident("y"))}
        exprs == {expr_ident("z"), expr_block(block(<<>>))}
    IN  UNION {{new_stmts(ss) : ss \in [1..n -> stmts]} : n \in 0..MaxStmts}
        \cup {new_expr(x) : x \in exprs}
        \cup UNION {{new_mixed(ss, x) : ss \in [1..n -> stmts], x \in exprs} :
                       n \in 1..MaxStmts}

InitCoerce ==
    /\ pc = "coerce"
    /\ block_or_expr \in BlockOrExprs
    /\ as_block = None
    /\ as_expr = None
    /\ struct_def = VariantData("Unit", <<>>)
    /\ summary = None
    /\ use_foldl = FALSE
    /\ substructure = Substructure("S", <<>>, Struct(VariantData("Unit", <<>>), <<>>))
    /\ fold_result = None
    /\ f_calls = <<>>
    /\ item = Item("S", "Struct", VariantData("Unit", <<>>), NoGenerics, <<>>, FALSE)
    /\ trait_def = TraitDef("Tr", <<>>, <<>>, FALSE, <<>>, <<>>, <<>>)
    /\ from_scratch = FALSE
    /\ diagnostics = <<>>
    /\ pushed = <<>>
    /\ methods = <<>>
    /\ newitem = None
    /\ exec = None

IntoBlock ==
    /\ pc = "coerce"
    /\ as_block = None
    /\ as_block' = Some(into_block(block_or_expr))
    /\ UNCHANGED <<pc, item, trait_def, from_scratch, diagnostics, pushed, methods,
                   newitem, exec, struct_def, summary, use_foldl, substructure,
                   fold_result, f_calls, block_or_expr, as_expr>>

IntoExpr ==
    /\ pc = "coerce"
    /\ as_expr = None
    /\ as_expr' = Some(into_expr(block_or_expr))
    /\ UNCHANGED <<pc, item, trait_def, from_scratch, diagnostics, pushed, methods,
                   newitem, exec, struct_def, summary, use_foldl, substructure,
                   fold_result, f_calls, block_or_expr, as_block>>

NextCoerce == IntoBlock \/ IntoExpr

SpecCoerce == InitCoerce /\ [][NextCoerce]_vars

-----------------------------------------------------------------------------
(* SpecArgs: expand_ext for methods whose parameters have varied types.    *)

\* the methods: with or without receiver, and up to MaxArgs parameters a1,
\* a2, ... each of type &Self, Self or &H
ArgMethods ==
    LET tys == {Ref(Self_), Self_, Ref(Path("H"))}
    IN  UNION {{MethodDef("m", es,
                          [i \in 1..n |-> [ty |-> t[i], name |-> "a" \o ToString(i)]],
                          FALSE, "new_expr") :
                   es \in BOOLEAN, t \in [1..n -> tys]} : n \in 0..MaxArgs}

\* a struct and a union of one field and the enum {A, B(i32)}
ArgItems ==
    {Item("S", "Struct", MkData("Struct", 1, <<i32>>, 0), NoGenerics, PlainAttrs, FALSE),
     Item("U", "Union", MkData("Struct", 1, <<i32>>, 0), NoGenerics, PlainAttrs, FALSE),
     Item("E", "Enum", MkEnum(<<[style |-> "Unit", n |-> 0], [style |-> "Tuple", n |-> 1]>>),
          NoGenerics, PlainAttrs, FALSE)}

\* the associated types of the trait: none, or type Output = Self and
\* type Hasher = H
ArgAssociatedTypes ==
    {<<>>, <<[ident |-> "Output", ty |-> Self_], [ident |-> "Hasher", ty |-> Path("H")]>>}

\* the trait supports unions exactly when the method has a receiver
InitArgs ==
    /\ InitExpand({<<it, TraitDef("Tr", <<>>, <<>>, it.kind = "Union" /\ m.explicit_self,
                                  <<m>>, <<>>, at)>> :
                      it \in ArgItems, m \in ArgMethods, at \in ArgAssociatedTypes})
    /\ IdleHelpers

SpecArgs == InitArgs /\ [][Next]_vars

-----------------------------------------------------------------------------
(* Properties of the generated code.                                       *)

\* the variant of the derived enum named ident
variant_named(ident) == item.def[discriminant_value(item.def, ident) + 1]

\* the combinator markers an expression holds, in source order
RECURSIVE Markers(_)
RECURSIVE StmtMarkers(_)

Markers(x) ==
    CASE x.e = "code" -> <<x.sub>>
      [] x.e = "if" ->
            Markers(x.cond) \o Markers(x.then)
            \o (IF IsSome(x.els) THEN Markers(Unwrap(x.els)) ELSE <<>>)
      [] x.e = "match" ->
            Markers(x.arg) \o Flatten([i \in 1..Len(x.arms) |-> Markers(x.arms[i].body)])
      [] x.e = "block" -> StmtMarkers(x.stmts)
      [] OTHER -> <<>>

StmtMarkers(stmts) == Flatten([i \in 1..Len(stmts) |-> Markers(stmts[i].expr)])

\* the markers of a BlockOrExpr
BodyMarkers(b) == StmtMarkers(into_block(b))

\* the executed call ran the combinator's code for EnumMatching of the variant
\* at index, with one FieldInfo per field of the variant that names the
\* bindings of the arm's patterns
RanEnumMatching(x, index, variant) ==
    /\ x.ran.e = "code"
    /\ x.ran.sub.fields.tag = "EnumMatching"
    /\ x.ran.sub.fields.index = index
    /\ x.ran.sub.fields.count = Len(item.def)
    /\ x.ran.sub.fields.variant = variant
    /\ Len(x.ran.sub.fields.fields) = Len(fields_of(variant.data))
    /\ \A i \in 1..Len(x.ran.sub.fields.fields) :
          /\ x.ran.sub.fields.fields[i].self_expr
                = expr_deref(expr_ident("__self_" \o ToString(i - 1)))
          /\ x.ran.sub.fields.fields[i].other_selflike_exprs
                = [k \in 1..(Len(x.args) - 1) |->
                      expr_deref(expr_ident("__arg_" \o ToString(k) \o "_" \o ToString(i - 1)))]

\* the executed call ran the combinator's code for EnumNonMatchingCollapsed,
\* which carries two distinct idents, each bound by a let of the body
RanCollapsed(x) ==
    /\ x.ran.e = "code"
    /\ x.ran.sub.fields.tag = "EnumNonMatchingCollapsed"
    /\ Len(x.ran.sub.fields.idents) = 2
    /\ x.ran.sub.fields.idents[1] # x.ran.sub.fields.idents[2]
    /\ \A k \in 1..2 :
          \E j \in 1..Len(pushed[1].items[x.m].body) :
             /\ pushed[1].items[x.m].body[j].s = "let"
             /\ pushed[1].items[x.m].body[j].pat = pat_ident("ByValue", x.ran.sub.fields.idents[k])

\* a generated method of an enum of more than one variant was called with
\* two self-like arguments
C1_Case ==
    /\ IsSome(exec)
    /\ Len(item.def) > 1
    /\ Len(Unwrap(exec).args) = 2

\* C1 as stated: two arguments holding the same variant v run the code for
\* EnumMatching of v, whatever unify_fieldless_variants says; two arguments
\* holding different variants run the code for EnumNonMatchingCollapsed with
\* two distinct discriminant bindings.
C1_AsStated ==
    C1_Case =>
        LET x == Unwrap(exec)
            v == variant_named(x.args[1])
        IN  IF x.args[1] = x.args[2]
            THEN RanEnumMatching(x, x.ran.sub.fields.index, v)
            ELSE RanCollapsed(x)

\* C1: for an enum of more than one variant and a method with two self-like
\* arguments, arguments holding different variants run the code for
\* EnumNonMatchingCollapsed with two distinct discriminant bindings; arguments
\* holding the same variant v run the code for EnumMatching of v at v's index
\* with v's fields, except that with unify_fieldless_variants set and v
\* fieldless they run the code of the shared arm: EnumMatching with index 0,
\* the first fieldless variant of the enum and no fields.
C1_EnumDispatch ==
    C1_Case =>
        LET x == Unwrap(exec)
            v == variant_named(x.args[1])
            method == trait_def.methods[x.m]
        IN  IF x.args[1] # x.args[2]
            THEN RanCollapsed(x)
            ELSE IF method.unify_fieldless_variants /\ is_fieldless(v)
            THEN RanEnumMatching(x, 0, Unwrap(first_fieldless(item.def)))
            ELSE RanEnumMatching(x, discriminant_value(item.def, v.ident), v)

\* C1 witness: the enum {A, B(i32), C(i32, ..)} called on (B, B) has run the
\* code for EnumMatching of B
C1_Witness ==
    /\ C1_Case
    /\ Len(item.def) = 3
    /\ [i \in 1..3 |-> Len(fields_of(item.def[i].data))] = <<0, 1, MaxFields>>
    /\ Unwrap(exec).args = <<"B", "B">>
    /\ RanEnumMatching(Unwrap(exec), 1, item.def[2])

-----------------------------------------------------------------------------
(* Properties of cs_fold.                                                  *)

\* pair(pair(pair(x1, x2), x3), ...): the left-nested chain over xs
RECURSIVE LeftChain(_)
LeftChain(xs) ==
    IF Len(xs) = 1 THEN xs[1]
    ELSE pair(LeftChain(SubSeq(xs, 1, Len(xs) - 1)), xs[Len(xs)])

\* pair(x1, pair(x2, pair(x3, ...))): the right-nested chain over xs
RECURSIVE RightChain(_)
RightChain(xs) ==
    IF Len(xs) = 1 THEN xs[1] ELSE pair(xs[1], RightChain(Tail(xs)))

\* what the callback makes of each field of the folded substructure, in
\* declaration order
FieldExprs ==
    [i \in 1..Len(substructure.fields.fields) |-> f(Single(substructure.fields.fields[i]))]

\* cs_fold has returned from a Struct or EnumMatching substructure with fields
C2_Case ==
    /\ pc = "folded"
    /\ substructure.fields.tag \in {"Struct", "EnumMatching"}
    /\ substructure.fields.fields # <<>>

\* C2 as stated: the left fold returns the left-nested chain and the right
\* fold the right-nested chain, both over the fields in declaration order.
C2_AsStated ==
    C2_Case =>
        fold_result = Some(IF use_foldl THEN LeftChain(FieldExprs)
                                        ELSE RightChain(FieldExprs))

\* C2: with a callback that maps Single(f) to f and Combine(_, a, b) to
\* pair(a, b), cs_fold returns a left-nested chain in both directions: over
\* the fields in declaration order when use_foldl is set, pair(pair(f0,f1),f2),
\* and over the fields in reverse declaration order when it is not,
\* pair(pair(f2,f1),f0).
C2_FoldChains ==
    C2_Case =>
        fold_result = Some(IF use_foldl THEN LeftChain(FieldExprs)
                                        ELSE LeftChain(Reverse(FieldExprs)))

\* C2 witness: the right fold over three fields has returned pair(pair(f2,f1),f0)
C2_Witness ==
    /\ C2_Case
    /\ ~use_foldl
    /\ Len(substructure.fields.fields) = 3
    /\ Cardinality({FieldExprs[i] : i \in 1..3}) = 3
    /\ fold_result = Some(pair(pair(FieldExprs[3], FieldExprs[2]), FieldExprs[1]))

-----------------------------------------------------------------------------
(* Properties of the bound inference of create_derived_impl.               *)

\* the names of the type parameters of the generated impl: the trait's own,
\* then those the item declares
ImplTyParamNames ==
    [i \in 1..Len(trait_def.generics) |-> trait_def.generics[i].name]
    \o LET tps == SelectSeq(item.generics.params, LAMBDA q : q.kind = "Type")
       IN  [i \in 1..Len(tps) |-> tps[i].ident]

\* the where-predicates the inference appended to the impl: those after the
\* predicates copied from the item
InferredPredicates ==
    LET preds == Unwrap(newitem).generics.predicates
    IN  SubSeq(preds, Len(item.generics.predicates) + 1, Len(preds))

\* the types InferredPredicates bound
InferredTypes == {InferredPredicates[i].bounded_ty : i \in 1..Len(InferredPredicates)}

\* the item declares the type parameter T and create_derived_impl has run
C3_Case ==
    /\ IsSome(newitem)
    /\ \E i \in 1..Len(item.generics.params) :
          item.generics.params[i].kind = "Type" /\ item.generics.params[i].ident = "T"

\* the item is a struct with a field of type Vec<T> and a field of type T
C3_VecAndBare ==
    /\ item.kind = "Struct"
    /\ \E i, j \in 1..Len(field_tys(item)) :
          field_tys(item)[i] = TyVec(TyParam("T")) /\ field_tys(item)[j] = TyParam("T")

\* C3 as stated: with a field of type Vec<T> and a field of bare type T, a
\* where-predicate is appended for the T nested in Vec (its bounded type is
\* that T, or reading generously the field type Vec<T>), and the bare field
\* adds no second one.
C3_AsStated ==
    (C3_Case /\ C3_VecAndBare) =>
        Cardinality({i \in 1..Len(InferredPredicates) :
                        InferredPredicates[i].bounded_ty
                            \in {TyParam("T"), TyVec(TyParam("T"))}}) = 1

\* C3: for a derived type with a declared type parameter T,
\* find_type_parameters records the T nested in a field type Vec<T>, but the
\* skip test drops every recorded type that is a one-segment path naming a
\* type parameter: no where-predicate is appended for a field of type Vec<T>
\* nor for a field of bare type T.  A predicate is appended for a recorded
\* longer path that starts with a parameter: a field of type T::Item or
\* Vec<T::Item> adds one that bounds T::Item by the additional bounds and
\* the derived trait.
C3_Inference ==
    C3_Case =>
        /\ \A i \in 1..Len(field_tys(item)) :
              field_tys(item)[i] = TyVec(TyParam("T")) =>
                 find_type_parameters(field_tys(item)[i], ImplTyParamNames).type_params
                    = <<TypeParameter(<<>>, TyParam("T"))>>
        /\ \A n \in 1..Len(ImplTyParamNames) :
              /\ TyParam(ImplTyParamNames[n]) \notin InferredTypes
              /\ TyVec(TyParam(ImplTyParamNames[n])) \notin InferredTypes
        /\ (\A i \in 1..Len(field_tys(item)) :
               field_tys(item)[i] \in {i32, TyParam("T"), TyVec(TyParam("T")),
                                       TyRptr(TyParam("T"))})
              => InferredPredicates = <<>>
        /\ \A i \in 1..Len(field_tys(item)) :
              field_tys(item)[i] \in {TyProj("T", "Item"), TyVec(TyProj("T", "Item"))} =>
                 \E k \in 1..Len(InferredPredicates) :
                    InferredPredicates[k]
                       = [kind |-> "BoundPredicate", span |-> trait_span,
                          bound_generic_params |-> <<>>,
                          bounded_ty |-> TyProj("T", "Item"),
                          bounds |-> trait_def.additional_bounds \o <<trait_def.path>>]

\* C3 witness: the impl of a struct S<T> with the fields Vec<T> and T was
\* made and no where-predicate was inferred
C3_Witness ==
    /\ C3_Case
    /\ C3_VecAndBare
    /\ Len(field_tys(item)) = 2
    /\ InferredPredicates = <<>>

\* the number of type macro invocations in the field types of the item
MacCallFields ==
    Cardinality({i \in 1..Len(field_tys(item)) :
                    field_tys(item)[i] \in {TyMacCall, TyVec(TyMacCall)}})

\* the errors reported for type macros
MacCallErrors ==
    SelectSeq(diagnostics,
              LAMBDA d : d = [level |-> "error",
                              msg |-> "derive cannot be used on items with type macros"])

\* expand_ext has returned from an item the trait can be derived for, whose
\* impl has a type parameter and one of whose field types holds a type macro
C5_Case ==
    /\ pc = "returned"
    /\ ~(item.kind = "Union" /\ ~trait_def.supports_unions)
    /\ ImplTyParamNames # <<>>
    /\ MacCallFields > 0

\* C5 as stated: the error is reported and the expansion stops, no impl is
\* produced or pushed.
C5_AsStated ==
    C5_Case => (MacCallErrors # <<>> /\ newitem = None /\ pushed = <<>>)

\* C5: when bound inference reaches a type macro in a field type of a type
\* whose impl has a type parameter, one error is reported per macro
\* invocation and the expansion goes on: the impl is produced and pushed
\* once, with its methods.  Without a type parameter the field types are not
\* visited and nothing is reported.
C5_TypeMacro ==
    /\ C5_Case =>
          /\ Len(MacCallErrors) = MacCallFields
          /\ IsSome(newitem)
          /\ Len(pushed) = 1
          /\ pushed[1].items = Unwrap(newitem).items
          /\ Len(pushed[1].items)
                = Len(trait_def.methods) + Len(trait_def.associated_types)
          /\ pushed[1].generics = Unwrap(newitem).generics
    /\ (pc = "returned" /\ ImplTyParamNames = <<>>) => MacCallErrors = <<>>

\* C5 witness: a struct S<T> with a field whose type is a macro invocation
\* was expanded: the error is reported and the impl pushed
C5_Witness ==
    /\ C5_Case
    /\ item.kind = "Struct"
    /\ field_tys(item)[1] = TyMacCall
    /\ MacCallErrors # <<>>
    /\ Len(pushed) = 1

-----------------------------------------------------------------------------
(* Properties of expand_ext and of the method bodies.                      *)

\* C4: when expand_ext returns from a union whose trait does not support
\* unions, it has reported "this trait cannot be derived for unions" and
\* nothing else, has not called push, has made no impl and has expanded no
\* method (so no combinator was invoked); when it returns from a struct, an
\* enum or a union whose trait supports unions, it has called push exactly
\* once, with the impl of the trait for the item that create_derived_impl
\* made.  push is never called twice.
C4_UnionsAndPush ==
    /\ Len(pushed) <= 1
    /\ pc = "returned" =>
          IF item.kind = "Union" /\ ~trait_def.supports_unions
          THEN /\ diagnostics = <<[level |-> "error",
                                   msg |-> "this trait cannot be derived for unions"]>>
               /\ pushed = <<>>
               /\ newitem = None
               /\ methods = <<>>
          ELSE /\ Len(pushed) = 1
               /\ IsSome(newitem)
               /\ pushed[1].of_trait = Some(trait_def.path)
               /\ pushed[1].self_ty.ident = item.ident
               /\ pushed[1].items = Unwrap(newitem).items
               /\ Len(pushed[1].items)
                     = Len(trait_def.methods) + Len(trait_def.associated_types)
               /\ \A d \in 1..Len(diagnostics) :
                     diagnostics[d].msg # "this trait cannot be derived for unions"

\* C4 witness: expand_ext has returned from a union whose trait does not
\* support unions: the error is reported and nothing is pushed
C4_Witness ==
    /\ pc = "returned"
    /\ item.kind = "Union"
    /\ ~trait_def.supports_unions
    /\ trait_def.methods # <<>>
    /\ Len(diagnostics) = 1
    /\ pushed = <<>>

\* the number of self-like arguments of an instance method: the receiver and
\* the parameters of type &Self
NumSelflike(m) ==
    1 + Cardinality({i \in 1..Len(m.nonself_args) : m.nonself_args[i].ty = Ref(Self_)})

\* the i-th method got the body of an instance method of an enum
EnumInstanceBody(i) ==
    /\ item.kind = "Enum"
    /\ ~from_scratch
    /\ trait_def.methods[i].explicit_self

\* how often the combinator is invoked for a body of method m
ExpectedCalls(i) ==
    LET m == trait_def.methods[i]
        fieldless == {v \in 1..Len(item.def) : fields_of(item.def[v].data) = <<>>}
        unified == IF m.unify_fieldless_variants THEN fieldless ELSE {}
    IN  IF EnumInstanceBody(i)
        THEN Len(item.def) - Cardinality(unified)
             + (IF unified # {} THEN 1 ELSE 0)
             + (IF Len(item.def) > 1 /\ NumSelflike(m) > 1 THEN 1 ELSE 0)
        ELSE 1

\* the markers one invocation of the combinator leaves in the body
MarkersPerCall(m) == IF m.combine_substructure = "new_mixed" THEN 2 ELSE 1

\* C6 as stated: the combinator is invoked at most once for every generated
\* method body.
C6_AsStated == \A i \in 1..Len(methods) : Len(methods[i].calls) <= 1

\* C6: the combinator is invoked exactly once for the body of a struct or
\* union method and for a static body; for the body of an instance method of
\* an enum it is invoked once for each variant that gets an arm of its own
\* (every variant, or with unify_fieldless_variants every variant with
\* fields), once more for the shared arm of the fieldless variants when
\* unify_fieldless_variants is set and there is one, and once more for
\* EnumNonMatchingCollapsed when the enum has more than one variant and the
\* method more than one self-like argument.  The code of every invocation is
\* placed in the body, in the order of the invocations.
C6_CombinatorCalls ==
    \A i \in 1..Len(methods) :
        /\ Len(methods[i].calls) = ExpectedCalls(i)
        /\ BodyMarkers(methods[i].body)
              = Flatten([c \in 1..Len(methods[i].calls) |->
                            [k \in 1..MarkersPerCall(trait_def.methods[i]) |->
                                Substructure(item.ident,
                                             methods[i].body_nonselflike_args,
                                             methods[i].calls[c])]])

\* C6 witness: the body of a method with two self-like arguments of an enum
\* of three variants was generated with four invocations of the combinator
C6_Witness ==
    /\ methods # <<>>
    /\ EnumInstanceBody(1)
    /\ Len(item.def) = 3
    /\ NumSelflike(trait_def.methods[1]) = 2
    /\ Len(methods[1].calls) = 4

\* the i-th method got the body of an instance method of an enum without variants
C7_Case(i) == EnumInstanceBody(i) /\ item.def = <<>>

\* C7: for an enum with zero variants the body of an instance method has no
\* statements and the unreachable marker as its only expression, whatever
\* the number of self-like arguments and unify_fieldless_variants: no match,
\* no reference to an argument, no discriminant binding, and the combinator
\* is not invoked.
C7_ZeroVariants ==
    \A i \in 1..Len(methods) :
        C7_Case(i) =>
            /\ methods[i].body = [stmts |-> <<>>, expr |-> Some([e |-> "unreachable"])]
            /\ methods[i].method.body = <<[s |-> "expr", expr |-> [e |-> "unreachable"]]>>
            /\ methods[i].calls = <<>>
            /\ BodyMarkers(methods[i].body) = <<>>

\* C7 witness: the body for an enum without variants was generated for a
\* method with three self-like arguments and unify_fieldless_variants set
C7_Witness ==
    /\ methods # <<>>
    /\ C7_Case(1)
    /\ NumSelflike(trait_def.methods[1]) = 3
    /\ trait_def.methods[1].unify_fieldless_variants
    /\ methods[1].body.expr = Some([e |-> "unreachable"])

\* the match of the body of an instance method of an enum: the body's
\* expression, or the then-branch of the test of the discriminants
TheMatch(b) == IF Unwrap(b.expr).e = "if" THEN Unwrap(b.expr).then ELSE Unwrap(b.expr)

\* the name of the variant an arm's pattern matches (not for the wildcard)
PatVariant(pat) ==
    IF pat.p = "tuple" THEN pat.subpats[1].subpats[1].path[2]
    ELSE pat.subpats[1].path[2]

\* the i-th method got the body of an instance method with
\* unify_fieldless_variants of an enum that has a fieldless variant
C8_Case(i) ==
    /\ EnumInstanceBody(i)
    /\ trait_def.methods[i].unify_fieldless_variants
    /\ \E v \in 1..Len(item.def) : fields_of(item.def[v].data) = <<>>

\* C8: with unify_fieldless_variants and an enum with a fieldless variant,
\* the arms of the generated match are, in declaration order, one arm for
\* each variant with fields, whose pattern names that variant, and then
\* exactly one wildcard arm, the last, whose body is the code of one
\* invocation of the combinator with EnumMatching of a fieldless variant
\* and an empty field list; no arm names a fieldless variant.
C8_UnifiedArm ==
    \A i \in 1..Len(methods) :
        C8_Case(i) =>
            LET arms == TheMatch(methods[i].body).arms
                with_fields == SelectSeq(item.def, LAMBDA v : fields_of(v.data) # <<>>)
                last == arms[Len(arms)]
                shared == {c \in 1..Len(methods[i].calls) :
                              /\ methods[i].calls[c].tag = "EnumMatching"
                              /\ methods[i].calls[c].fields = <<>>}
            IN  /\ TheMatch(methods[i].body).e = "match"
                /\ Len(arms) = Len(with_fields) + 1
                /\ \A j \in 1..Len(with_fields) :
                      /\ arms[j].pat.p # "wild"
                      /\ PatVariant(arms[j].pat) = with_fields[j].ident
                /\ last.pat = [p |-> "wild"]
                /\ Cardinality(shared) = 1
                /\ \A c \in shared :
                      /\ fields_of(methods[i].calls[c].variant.data) = <<>>
                      /\ Markers(last.body)
                            = [k \in 1..MarkersPerCall(trait_def.methods[i]) |->
                                  Substructure(item.ident, methods[i].body_nonselflike_args,
                                               methods[i].calls[c])]

\* C8 witness: the match for the enum {A, B, C(i32)} has two arms, one for
\* C and the wildcard arm shared by A and B
C8_Witness ==
    /\ methods # <<>>
    /\ C8_Case(1)
    /\ [v \in 1..Len(item.def) |-> Len(fields_of(item.def[v].data))] = <<0, 0, 1>>
    /\ Len(TheMatch(methods[1].body).arms) = 2
    /\ PatVariant(TheMatch(methods[1].body).arms[1].pat) = "C"
    /\ TheMatch(methods[1].body).arms[2].pat = [p |-> "wild"]

-----------------------------------------------------------------------------
(* Properties of summarise_struct.                                         *)

\* the span summarise_struct gives the i-th field of struct_def
SummarySpan(i) == [pos |-> struct_def.fields[i].span.pos, ctxt |-> "derive"]

\* summarise_struct has returned from a tuple-style declaration (all of
\* whose fields are unnamed)
C9_Case ==
    /\ pc = "summarised"
    /\ struct_def.style = "Tuple"
    /\ \A i \in 1..Len(struct_def.fields) : struct_def.fields[i].ident = None

\* C9 as stated: every tuple-style declaration, whatever its number of
\* fields, is summarised as Unnamed(spans, is_tuple = true) with one span
\* per field in declaration order.
C9_AsStated ==
    C9_Case =>
        summary = Some([tag |-> "Unnamed",
                        spans |-> [i \in 1..Len(struct_def.fields) |-> SummarySpan(i)],
                        is_tuple |-> TRUE])

\* C9: a tuple-style declaration with at least one field is summarised as
\* Unnamed(spans, is_tuple = true) with one span per field in declaration
\* order; a tuple-style declaration without fields is summarised as
\* Named(empty).
C9_TupleSummary ==
    C9_Case =>
        summary = Some(IF struct_def.fields # <<>>
                       THEN [tag |-> "Unnamed",
                             spans |-> [i \in 1..Len(struct_def.fields) |-> SummarySpan(i)],
                             is_tuple |-> TRUE]
                       ELSE [tag |-> "Named", idents |-> <<>>])

\* C9 witness: a tuple-style declaration of MaxSumFields fields was
\* summarised as Unnamed with as many spans
C9_Witness ==
    /\ C9_Case
    /\ Len(struct_def.fields) = MaxSumFields
    /\ Unwrap(summary).tag = "Unnamed"
    /\ Len(Unwrap(summary).spans) = MaxSumFields
    /\ Unwrap(summary).is_tuple

\* summarise_struct has returned from a field list whose fields are all named
C10_Case ==
    /\ pc = "summarised"
    /\ \A i \in 1..Len(struct_def.fields) : struct_def.fields[i].ident # None

\* C10: a field list whose fields are all named is summarised as Named with
\* one (name, span) entry per field in declaration order, and every field
\* list without fields, whatever the style of the declaration, as
\* Named(empty).
C10_NamedSummary ==
    /\ C10_Case =>
          summary = Some([tag |-> "Named",
                          idents |-> [i \in 1..Len(struct_def.fields) |->
                                         [ident |-> struct_def.fields[i].ident[1],
                                          span |-> SummarySpan(i)]]])
    /\ (pc = "summarised" /\ struct_def.fields = <<>>) =>
          summary = Some([tag |-> "Named", idents |-> <<>>])

\* C10 witness: a braced declaration of MaxSumFields named fields, not all
\* of the same name, was summarised as Named with as many entries
C10_Witness ==
    /\ C10_Case
    /\ struct_def.style = "Struct"
    /\ Len(struct_def.fields) = MaxSumFields
    /\ struct_def.fields[1].ident # struct_def.fields[2].ident
    /\ Unwrap(summary).tag = "Named"
    /\ Len(Unwrap(summary).idents) = MaxSumFields

\* the field list of struct_def holds a named and an unnamed field
MixedFields ==
    /\ \E i \in 1..Len(struct_def.fields) : struct_def.fields[i].ident # None
    /\ \E i \in 1..Len(struct_def.fields) : struct_def.fields[i].ident = None

\* C11: summarise_struct never returns from a field list that holds both a
\* named and an unnamed field: on such a list it stops with the fatal
\* diagnostic "a struct with named and unnamed fields in generic derive"
\* and no summary; a summary it does return is Named without spans of
\* unnamed fields or Unnamed without names.
C11_MixedIsBug ==
    /\ (pc # "summarise_struct" /\ MixedFields) =>
          /\ pc = "ice"
          /\ summary = None
          /\ diagnostics =
                <<[level |-> "bug",
                   msg |-> "a struct with named and unnamed fields in generic derive"]>>
    /\ pc = "summarised" =>
          /\ ~MixedFields
          /\ diagnostics = <<>>
          /\ \/ /\ Unwrap(summary).tag = "Named"
                /\ Len(Unwrap(summary).idents) = Len(struct_def.fields)
             \/ /\ Unwrap(summary).tag = "Unnamed"
                /\ Len(Unwrap(summary).spans) = Len(struct_def.fields)

\* C11 witness: summarise_struct stopped on a field list of one named and
\* one unnamed field
C11_Witness ==
    /\ pc = "ice"
    /\ Len(struct_def.fields) = 2
    /\ struct_def.fields[1].ident # None
    /\ struct_def.fields[2].ident = None
    /\ Len(diagnostics) = 1

-----------------------------------------------------------------------------
(* Properties of the calls cs_fold makes to its callback.                  *)

\* cs_fold has returned from a Struct or EnumMatching substructure of n fields
FoldedFields(n) ==
    /\ pc = "folded"
    /\ substructure.fields.tag \in {"Struct", "EnumMatching"}
    /\ Len(substructure.fields.fields) = n

\* C12: on a Struct or EnumMatching substructure without fields cs_fold
\* calls the callback exactly once, with Fieldless, and returns what that
\* call returned; on one with exactly one field it calls the callback
\* exactly once, with Single of that field, and returns what that call
\* returned. No Combine call is made in either case, in either direction.
C12_FewFields ==
    /\ FoldedFields(0) =>
          /\ f_calls = <<Fieldless>>
          /\ fold_result = Some(f(Fieldless))
    /\ FoldedFields(1) =>
          /\ f_calls = <<Single(substructure.fields.fields[1])>>
          /\ fold_result = Some(f(Single(substructure.fields.fields[1])))

\* C12 witness: the right fold over the one field of an enum variant called
\* the callback once and returned the field's own expression
C12_Witness ==
    /\ FoldedFields(1)
    /\ substructure.fields.tag = "EnumMatching"
    /\ ~use_foldl
    /\ Len(f_calls) = 1
    /\ fold_result = Some(substructure.fields.fields[1].self_expr)

-----------------------------------------------------------------------------
(* Properties of the bodies generated for packed structs.                  *)

\* the i-th method got its body from expand_struct_method_body with is_packed
C13_Case(i) ==
    /\ item.kind \in {"Struct", "Union"}
    /\ is_packed(item)
    /\ ~from_scratch
    /\ trait_def.methods[i].explicit_self

\* the local the j-th field (from 1) of the k-th self-like argument (from 1)
\* is bound to
PackedLocal(k, j) == "__self_" \o ToString(k - 1) \o "_" \o ToString(j - 1)

\* the fields a struct pattern destructures and the locals it binds them
\* to, in the order of the pattern
PatBindings(pat) ==
    CASE pat.p = "struct" ->
            [j \in 1..Len(pat.subpats) |->
                [field |-> Some(pat.subpats[j].ident), name |-> pat.subpats[j].pat.name]]
      [] pat.p = "tuple_struct" ->
            [j \in 1..Len(pat.subpats) |->
                [field |-> None, name |-> pat.subpats[j].name]]
      [] OTHER -> <<>>

\* x is the local of name, or a dereference of it
IsLocal(x, name) == x = expr_ident(name) \/ x = expr_deref(expr_ident(name))

\* C13: the body of an instance method of a packed struct with N self-like
\* arguments starts with N let statements, the k-th destructuring the k-th
\* self-like argument through the path Self and binding its j-th field to
\* the local __self_(k-1)_(j-1); what follows is exactly the statements and
\* the trailing expression the combinator returned; and the combinator,
\* called once, got for every field and every self-like argument that local
\* (dereferenced or not), never a field access.
C13_PackedLets ==
    \A i \in 1..Len(methods) :
        C13_Case(i) =>
            LET m == trait_def.methods[i]
                N == NumSelflike(m)
                b == methods[i].body
                fs == item.def.fields
                args == <<expr_deref(expr_ident("self"))>>
                        \o [k \in 1..(N - 1) |->
                               expr_deref(expr_ident("other" \o ToString(k)))]
                sub == Substructure(item.ident, methods[i].body_nonselflike_args,
                                    methods[i].calls[1])
                returned == combine_substructure(m.combine_substructure, sub)
            IN  /\ N \in {1, 2}
                /\ Len(b.stmts) >= N
                /\ \A k \in 1..N :
                      /\ b.stmts[k].s = "let"
                      /\ b.stmts[k].expr = args[k]
                      /\ b.stmts[k].pat.path = <<"Self">>
                      /\ PatBindings(b.stmts[k].pat) =
                            [j \in 1..Len(fs) |->
                                [field |-> fs[j].ident, name |-> PackedLocal(k, j)]]
                /\ SubSeq(b.stmts, N + 1, Len(b.stmts)) = returned.stmts
                /\ b.expr = returned.expr
                /\ Len(methods[i].calls) = 1
                /\ methods[i].calls[1].tag = "Struct"
                /\ Len(methods[i].calls[1].fields) = Len(fs)
                /\ \A j \in 1..Len(fs) :
                      LET fi == methods[i].calls[1].fields[j]
                      IN  /\ IsLocal(fi.self_expr, PackedLocal(1, j))
                          /\ Len(fi.other_selflike_exprs) = N - 1
                          /\ \A k \in 2..N :
                                IsLocal(fi.other_selflike_exprs[k - 1], PackedLocal(k, j))

\* C13 witness: a packed struct of two fields got the body of a method of
\* two self-like arguments whose combinator returns statements and an
\* expression: two let statements, then the combinator's statement
C13_Witness ==
    /\ Len(methods) = 1
    /\ C13_Case(1)
    /\ item.kind = "Struct"
    /\ Len(item.def.fields) = 2
    /\ NumSelflike(trait_def.methods[1]) = 2
    /\ trait_def.methods[1].combine_substructure = "new_mixed"
    /\ Len(methods[1].body.stmts) = 3
    /\ methods[1].body.stmts[2].s = "let"
    /\ methods[1].body.stmts[3].s = "expr"

-----------------------------------------------------------------------------
(* Properties of the generic parameters of the generated impl.             *)

\* create_derived_impl has returned the impl
ImplMade == pc \in {"derived", "returned"} /\ newitem # None

\* the parameter of the impl that stands for the i-th parameter of the item:
\* the impl has the TraitDef's own parameters first
ImplParam(i) == Unwrap(newitem).generics.params[Len(trait_def.generics) + i]

\* C14 as stated: every lifetime parameter and every const parameter of the
\* item is a parameter of the impl unchanged, a const parameter with its
\* default value.
C14_AsStated ==
    ImplMade =>
        /\ Len(Unwrap(newitem).generics.params) =
              Len(trait_def.generics) + Len(item.generics.params)
        /\ \A i \in 1..Len(item.generics.params) :
              item.generics.params[i].kind \in {"Lifetime", "Const"} =>
                  ImplParam(i) = item.generics.params[i]

\* C14: every lifetime parameter of the item is a parameter of the impl
\* unchanged; every const parameter of the item is a parameter of the impl
\* with its name, its bounds and its type unchanged, without default value,
\* and with the span of its const keyword moved to the syntax context of
\* the derive.
C14_LifetimeConstParams ==
    ImplMade =>
        /\ Len(Unwrap(newitem).generics.params) =
              Len(trait_def.generics) + Len(item.generics.params)
        /\ \A i \in 1..Len(item.generics.params) :
              LET q == item.generics.params[i]
              IN  /\ q.kind = "Lifetime" => ImplParam(i) = q
                  /\ q.kind = "Const" =>
                        ImplParam(i) =
                            [ident |-> q.ident, kind |-> "Const", bounds |-> q.bounds,
                             default |-> None, ty |-> q.ty,
                             kw_span |-> [pos |-> q.kw_span.pos, ctxt |-> "derive"]]

\* C14 witness: the impl was made for an item with a lifetime parameter, a
\* const parameter with a default value and one without, and for a TraitDef
\* with a parameter of its own
C14_Witness ==
    /\ ImplMade
    /\ Len(trait_def.generics) = 1
    /\ Len(item.generics.params) = 3
    /\ item.generics.params[1].kind = "Lifetime"
    /\ item.generics.params[2].kind = "Const"
    /\ item.generics.params[2].default # None
    /\ item.generics.params[3].kind = "Const"
    /\ ImplParam(1).ident = "'a"
    /\ ImplParam(2).ident = "N"
    /\ ImplParam(2).default = None


\* C15: the impl has the TraitDef's own parameters first and then one
\* parameter per parameter of the item, in declaration order; the one made
\* from a type parameter has that parameter's name and, as its bounds, the
\* TraitDef's additional bounds, then the derived trait, then the bounds
\* declared on the parameter, and nothing else.
C15_TypeParamBounds ==
    ImplMade =>
        /\ Len(Unwrap(newitem).generics.params) =
              Len(trait_def.generics) + Len(item.generics.params)
        /\ \A k \in 1..Len(trait_def.generics) :
              Unwrap(newitem).generics.params[k].ident = trait_def.generics[k].name
        /\ \A i \in 1..Len(item.generics.params) :
              LET q == item.generics.params[i]
              IN  q.kind = "Type" =>
                      /\ ImplParam(i).kind = "Type"
                      /\ ImplParam(i).ident = q.ident
                      /\ ImplParam(i).bounds =
                            trait_def.additional_bounds \o <<trait_def.path>> \o q.bounds

\* C15 witness: for <'a, T: Bound, U, const N: usize = 3>, a TraitDef with
\* the additional bound B1 and a parameter of its own, the impl has
\* T: B1 + Tr + Bound and U: B1 + Tr
C15_Witness ==
    /\ ImplMade
    /\ Len(trait_def.generics) = 1
    /\ Len(item.generics.params) = 4
    /\ ImplParam(2).ident = "T"
    /\ ImplParam(2).bounds = <<"B1", "Tr", "Bound">>
    /\ ImplParam(3).ident = "U"
    /\ ImplParam(3).bounds = <<"B1", "Tr">>

-----------------------------------------------------------------------------
(* Properties of the attributes of the pushed impl.                        *)

\* the attributes of attrs that control linting, in their order
RECURSIVE KeptAttrs(_)
KeptAttrs(attrs) ==
    IF attrs = <<>> THEN <<>>
    ELSE (IF \/ Head(attrs).name = "allow" \/ Head(attrs).name = "warn"
             \/ Head(attrs).name = "deny" \/ Head(attrs).name = "forbid"
             \/ Head(attrs).name = "stable" \/ Head(attrs).name = "unstable"
          THEN <<Head(attrs)>> ELSE <<>>) \o KeptAttrs(Tail(attrs))

\* C16: when expand_ext pushes, it pushes one item: the impl that
\* create_derived_impl returned, with the attributes automatically_derived,
\* allow(unused_qualifications), the TraitDef's attributes and then those
\* attributes of the original item that are named allow, warn, deny,
\* forbid, stable or unstable, in their original order, and no other
\* attribute of the item; the original item is left as it was.
C16_PushedAttrs ==
    [][pushed' # pushed =>
          /\ newitem # None
          /\ pushed' = <<[Unwrap(newitem) EXCEPT
                             !.attrs = <<[name |-> "automatically_derived", items |-> <<>>],
                                         [name |-> "allow",
                                          items |-> <<[name |-> "unused_qualifications",
                                                       args |-> <<>>]>>]>>
                                       \o trait_def.attributes
                                       \o KeptAttrs(item.attrs)]>>
          /\ item' = item]_vars

\* C16 witness: the impl was pushed for an item that has lint attributes
\* among others; it has two attributes of its own, one of the TraitDef and
\* the three lint attributes of the item
C16_Witness ==
    /\ pc = "returned"
    /\ Len(pushed) = 1
    /\ Len(item.attrs) = 5
    /\ Len(trait_def.attributes) = 1
    /\ Len(pushed[1].attrs) = 6
    /\ pushed[1].attrs[4] = [name |-> "allow", items |-> <<[name |-> "dead_code", args |-> <<>>]>>]
    /\ pushed[1].attrs[5] = [name |-> "deny", items |-> <<[name |-> "missing_docs", args |-> <<>>]>>]
    /\ pushed[1].attrs[6] = [name |-> "stable", items |-> <<[name |-> "rust1", args |-> <<>>]>>]

-----------------------------------------------------------------------------
(* Properties of the single match of expand_enum_method_body.              *)

\* the i-th method got the body of an instance method of an enum, and the
\* method has one self-like argument or the enum exactly one variant
C17_Case(i) ==
    /\ EnumInstanceBody(i)
    /\ NumSelflike(trait_def.methods[i]) = 1 \/ Len(item.def) = 1

\* the FieldInfo of the j-th field of variant for n self-like arguments
ArmFieldInfo(variant, j, n) ==
    [span |-> [pos |-> variant.data.fields[j].span.pos, ctxt |-> "derive"],
     name |-> variant.data.fields[j].ident,
     self_expr |-> expr_deref(expr_ident("__self_" \o ToString(j - 1))),
     other_selflike_exprs |->
         [k \in 1..(n - 1) |->
             expr_deref(expr_ident("__arg_" \o ToString(k) \o "_" \o ToString(j - 1)))]]

\* the arm of the i-th method's match made by invoking the combinator with
\* EnumMatching(index, number of variants, variant, fields); named is
\* whether its pattern names the variant or is the wildcard
ExpectedArm(i, index, variant, fields, named) ==
    [variant |-> IF named THEN Some(variant.ident) ELSE None,
     call |-> [tag |-> "EnumMatching", index |-> index, count |-> Len(item.def),
               variant |-> variant, fields |-> fields],
     body |-> into_expr(combine_substructure(
                  trait_def.methods[i].combine_substructure,
                  [type_ident |-> item.ident,
                   nonselflike_args |-> methods[i].body_nonselflike_args,
                   fields |-> [tag |-> "EnumMatching", index |-> index,
                               count |-> Len(item.def), variant |-> variant,
                               fields |-> fields]]))]

\* the arm of the variant at position v (from 1) with all its fields
VariantArm(i, v) ==
    ExpectedArm(i, v - 1, item.def[v],
                [j \in 1..Len(item.def[v].data.fields) |->
                    ArmFieldInfo(item.def[v], j, NumSelflike(trait_def.methods[i]))],
                TRUE)

\* the body of the i-th method is one match over the self-like argument (or
\* the tuple of them), each by reference, with exactly the expected arms,
\* and without statements; the combinator was invoked once per arm
IsSingleMatch(i, expected) ==
    LET b == methods[i].body
        n == NumSelflike(trait_def.methods[i])
        by_ref == <<expr_addr_of(expr_deref(expr_ident("self")))>>
                  \o [k \in 1..(n - 1) |->
                         expr_addr_of(expr_deref(expr_ident("other" \o ToString(k))))]
    IN  /\ b.stmts = <<>>
        /\ b.expr # None
        /\ Unwrap(b.expr).e = "match"
        /\ Unwrap(b.expr).arg = IF n = 1 THEN by_ref[1] ELSE [e |-> "tup", elems |-> by_ref]
        /\ Len(Unwrap(b.expr).arms) = Len(expected)
        /\ \A j \in 1..Len(expected) :
              LET a == Unwrap(b.expr).arms[j]
              IN  /\ a.body = expected[j].body
                  /\ IF expected[j].variant = None
                     THEN a.pat = [p |-> "wild"]
                     ELSE a.pat.p # "wild" /\ Some(PatVariant(a.pat)) = expected[j].variant
        /\ methods[i].calls = [j \in 1..Len(expected) |-> expected[j].call]

\* C17 as stated: with one self-like argument or exactly one variant the
\* body is a single match with exactly one arm per variant, in declaration
\* order, each made by invoking the combinator with EnumMatching(index,
\* count, variant, fields) of that variant, without discriminant bindings
\* and without test.
C17_AsStated ==
    \A i \in 1..Len(methods) :
        C17_Case(i) => IsSingleMatch(i, [v \in 1..Len(item.def) |-> VariantArm(i, v)])

\* C17: with one self-like argument or exactly one variant, and an enum of
\* at least one variant, the body is a single match without discriminant
\* bindings and without test.  Without unify_fieldless_variants it has
\* exactly one arm per variant, in declaration order, each made by invoking
\* the combinator with EnumMatching(index, count, variant, fields) of that
\* variant.  With unify_fieldless_variants it has such an arm for every
\* variant that has fields, in declaration order, and then, if some variant
\* is fieldless, one wildcard arm made by invoking the combinator with
\* EnumMatching(0, count, first fieldless variant, no fields).
C17_SingleMatch ==
    \A i \in 1..Len(methods) :
        (C17_Case(i) /\ item.def # <<>>) =>
            LET unify == trait_def.methods[i].unify_fieldless_variants
                own == SelectSeq([v \in 1..Len(item.def) |-> v],
                                 LAMBDA v : ~(unify /\ item.def[v].data.fields = <<>>))
                fieldless == {v \in 1..Len(item.def) : item.def[v].data.fields = <<>>}
                first == CHOOSE v \in fieldless : \A w \in fieldless : v <= w
            IN  IsSingleMatch(i,
                    [j \in 1..Len(own) |-> VariantArm(i, own[j])]
                    \o (IF unify /\ fieldless # {}
                        THEN <<ExpectedArm(i, 0, item.def[first], <<>>, FALSE)>>
                        ELSE <<>>))

\* C17 witness: the enum {A, B(i32), C(i32, ..)} got, for a method with one
\* self-like argument and without unify_fieldless_variants, a match on
\* &*self with the three arms A, B, C
C17_Witness ==
    /\ Len(methods) = 1
    /\ C17_Case(1)
    /\ ~trait_def.methods[1].unify_fieldless_variants
    /\ NumSelflike(trait_def.methods[1]) = 1
    /\ [v \in 1..Len(item.def) |-> Len(item.def[v].data.fields)] = <<0, 1, MaxFields>>
    /\ methods[1].body.stmts = <<>>
    /\ Len(Unwrap(methods[1].body.expr).arms) = 3
    /\ Unwrap(methods[1].body.expr).arg = expr_addr_of(expr_deref(expr_ident("self")))

-----------------------------------------------------------------------------
(* Properties of the catch-all arm with the unreachable body.              *)

\* the arms of the match of the executed method
ExecArms == TheMatch(methods[Unwrap(exec).m].body).arms

\* a generated method with more than one self-like argument of an enum of
\* more than one variant was called, and the last arm of its match is the
\* wildcard arm with the unreachable body
C18_Case ==
    /\ IsSome(exec)
    /\ Len(item.def) > 1
    /\ Len(Unwrap(exec).args) > 1
    /\ ExecArms[Len(ExecArms)] = [pat |-> [p |-> "wild"], body |-> [e |-> "unreachable"]]

\* C18: when the wildcard arm with the unreachable body is present, no
\* tuple of argument values reaches it.  Arguments that do not all hold the
\* same variant do not enter the match: they run the combinator's code for
\* EnumNonMatchingCollapsed.  Arguments that all hold the variant v are
\* matched by the arm of v: they run the combinator's code for EnumMatching
\* of v.
C18_Unreachable ==
    C18_Case =>
        LET x == Unwrap(exec)
            same == \A k \in 1..Len(x.args) : x.args[k] = x.args[1]
        IN  /\ x.ran.e # "unreachable"
            /\ x.ran.e = "code"
            /\ IF same
               THEN /\ x.ran.sub.fields.tag = "EnumMatching"
                    /\ x.ran.sub.fields.variant.ident = x.args[1]
                    /\ \E j \in 1..(Len(ExecArms) - 1) :
                          /\ PatVariant(ExecArms[j].pat) = x.args[1]
                          /\ Markers(ExecArms[j].body)[1] = x.ran.sub
               ELSE x.ran.sub.fields.tag = "EnumNonMatchingCollapsed"

\* C18 witness: a method with three self-like arguments of an enum of three
\* variants, the first fieldless, was called without unify_fieldless_variants
\* on (C, C, C) and ran the code of the arm of C, the third of four arms
C18_Witness ==
    /\ C18_Case
    /\ Len(item.def) = 3
    /\ item.def[1].data.fields = <<>>
    /\ ~trait_def.methods[Unwrap(exec).m].unify_fieldless_variants
    /\ Unwrap(exec).args = <<"C", "C", "C">>
    /\ Len(ExecArms) = 4
    /\ Unwrap(exec).ran.e = "code"
    /\ Unwrap(exec).ran.sub.fields.index = 2

-----------------------------------------------------------------------------
(* Properties of cs_fold on the substructures without field expressions.   *)

\* C19: on a StaticStruct or StaticEnum substructure cs_fold stops with the
\* fatal diagnostic "static function in derive", returns nothing and has
\* not called the callback; on EnumNonMatchingCollapsed(idents) it calls
\* the callback exactly once, with EnumNonMatching carrying the trait's span
\* and the same idents, and returns what that call returned.
C19_StaticAndCollapsed ==
    /\ (pc # "cs_fold" /\ substructure.fields.tag \in {"StaticStruct", "StaticEnum"}) =>
          /\ pc = "ice"
          /\ diagnostics = <<[level |-> "bug", msg |-> "static function in derive"]>>
          /\ fold_result = None
          /\ f_calls = <<>>
    /\ (pc # "cs_fold" /\ substructure.fields.tag = "EnumNonMatchingCollapsed") =>
          /\ pc = "folded"
          /\ diagnostics = <<>>
          /\ f_calls = <<[tag |-> "EnumNonMatching", span |-> [pos |-> 0, ctxt |-> "derive"],
                          idents |-> substructure.fields.idents]>>
          /\ fold_result = Some(f(f_calls[1]))

\* C19 witness: cs_fold has returned from EnumNonMatchingCollapsed of the
\* two idents __self_vi and __arg_1_vi after one call of the callback
C19_Witness ==
    /\ pc = "folded"
    /\ substructure.fields.tag = "EnumNonMatchingCollapsed"
    /\ substructure.fields.idents = <<"__self_vi", "__arg_1_vi">>
    /\ Len(f_calls) = 1
    /\ f_calls[1].tag = "EnumNonMatching"
    /\ f_calls[1].idents = <<"__self_vi", "__arg_1_vi">>

-----------------------------------------------------------------------------
(* Properties of the coercions of a BlockOrExpr.                           *)

\* the statements S followed, if there is a trailing expression, by that
\* expression as the last statement
StmtsThenExpr ==
    block_or_expr.stmts
    \o (IF block_or_expr.expr = <<>> THEN <<>>
        ELSE <<[s |-> "expr", expr |-> block_or_expr.expr[1]]>>)

\* C20: into_block returns the statements followed by the trailing
\* expression, if present, as the last statement.  into_expr returns the
\* trailing expression itself when there are no statements and it is
\* present, the empty block expression when there are no statements and it
\* is absent, and otherwise the block expression of exactly the block that
\* into_block returns.  So what into_expr returns is either the block
\* expression of into_block's block or the one expression that block
\* consists of, and a lone expression is never wrapped.
C20_Coercions ==
    /\ as_block # None => as_block[1] = StmtsThenExpr
    /\ as_expr # None =>
          as_expr[1] =
              IF block_or_expr.stmts = <<>> /\ block_or_expr.expr # <<>>
              THEN block_or_expr.expr[1]
              ELSE IF block_or_expr.stmts = <<>>
              THEN [e |-> "block", stmts |-> <<>>]
              ELSE [e |-> "block", stmts |-> StmtsThenExpr]
    /\ (as_block # None /\ as_expr # None) =>
          \/ as_expr[1] = [e |-> "block", stmts |-> as_block[1]]
          \/ /\ block_or_expr.stmts = <<>>
             /\ as_block[1] = <<[s |-> "expr", expr |-> as_expr[1]]>>

\* C20 witness: both coercions were applied to two statements and a
\* trailing expression: a block of three statements, and its block
\* expression
C20_Witness ==
    /\ Len(block_or_expr.stmts) = 2
    /\ block_or_expr.expr = <<[e |-> "path", name |-> "z"]>>
    /\ as_block # None
    /\ as_expr # None
    /\ Len(as_block[1]) = 3
    /\ as_expr[1].e = "block"
    /\ as_expr[1].stmts = as_block[1]

-----------------------------------------------------------------------------
(* Properties of extract_arg_details.                                      *)

\* the parameters, besides the receiver, of the one method of the trait
TheArgs == trait_def.methods[1].nonself_args

\* the positions in TheArgs of the parameters that are self-like: those of
\* type &Self of a method with a receiver
SelflikePositions ==
    {i \in 1..Len(TheArgs) :
        trait_def.methods[1].explicit_self /\ TheArgs[i].ty = [k |-> "Ref", inner |-> [k |-> "Self_"]]}

\* the parameters of TheArgs at the positions of ps, in declaration order
RECURSIVE ArgsAt(_, _)
ArgsAt(ps, from) ==
    IF from > Len(TheArgs) THEN <<>>
    ELSE (IF from \in ps THEN <<TheArgs[from]>> ELSE <<>>) \o ArgsAt(ps, from + 1)

\* expand_ext was called for a trait of one method on an item it supports
\* and has got past extract_arg_details or stopped
C21_Case ==
    /\ pc # "expand_ext"
    /\ Len(trait_def.methods) = 1
    /\ ~(item.kind = "Union" /\ ~trait_def.supports_unions)

\* C21: extract_arg_details classifies every parameter and expansion goes
\* on: it reports no fatal diagnostic about a parameter of type Self; for
\* a method with a receiver the self-like arguments are the receiver and
\* then the parameters of type &Self, in declaration order, and every other
\* parameter is non-self-like; for a static method no argument is self-like
\* and every parameter, one of type Self included, is non-self-like; and
\* the generated signature lists every parameter once, in order.
C21_AsStated ==
    C21_Case =>
        /\ \A i \in 1..Len(diagnostics) :
              diagnostics[i].msg # "'Self' in non-return position"
        /\ \A i \in 1..Len(methods) :
              LET self_like == ArgsAt(SelflikePositions, 1)
                  others == ArgsAt((1..Len(TheArgs)) \ SelflikePositions, 1)
              IN  /\ methods[i].body_selflike_args =
                        (IF trait_def.methods[1].explicit_self
                         THEN <<[e |-> "deref", of |-> [e |-> "path", name |-> "self"]]>>
                         ELSE <<>>)
                        \o [j \in 1..Len(self_like) |->
                               [e |-> "deref",
                                of |-> [e |-> "path", name |-> self_like[j].name]]]
                  /\ methods[i].body_nonselflike_args =
                        [j \in 1..Len(others) |-> [e |-> "path", name |-> others[j].name]]
                  /\ LET params == methods[i].method.args
                         skip == IF trait_def.methods[1].explicit_self THEN 1 ELSE 0
                     IN  /\ Len(params) = skip + Len(TheArgs)
                         /\ skip = 1 => params[1].ident = "self"
                         /\ \A j \in 1..Len(TheArgs) :
                               params[skip + j].ident = TheArgs[j].name

-----------------------------------------------------------------------------
(* Properties of the binding mode of the destructuring patterns.           *)

\* the binding modes of the identifier patterns inside a pattern
RECURSIVE BindingModes(_)
BindingModes(pat) ==
    CASE pat.p = "ident" -> {pat.mode}
      [] pat.p = "struct" ->
            UNION {BindingModes(pat.subpats[j].pat) : j \in 1..Len(pat.subpats)}
      [] pat.p \in {"tuple_struct", "tuple", "ref"} ->
            UNION {BindingModes(pat.subpats[j]) : j \in 1..Len(pat.subpats)}
      [] OTHER -> {}

\* the binding modes of the patterns of a generated body: of its let
\* statements with a struct pattern and of the arms of its match
BodyBindingModes(b) ==
    UNION {BindingModes(b.stmts[j].pat) :
              j \in {k \in 1..Len(b.stmts) : b.stmts[k].s = "let" /\ b.stmts[k].pat.p # "ident"}}
    \cup (IF b.expr # <<>> /\ b.expr[1].e \in {"match", "if"}
          THEN UNION {BindingModes(TheMatch(b).arms[j].pat) :
                         j \in 1..Len(TheMatch(b).arms)}
          ELSE {})

\* the field expressions of every FieldInfo handed to the combinator
CallFieldExprs(calls) ==
    UNION {UNION {{calls[c].fields[j].self_expr}
                  \cup {calls[c].fields[j].other_selflike_exprs[k] :
                           k \in 1..Len(calls[c].fields[j].other_selflike_exprs)} :
                     j \in 1..Len(calls[c].fields)} :
              c \in {d \in 1..Len(calls) : calls[d].tag \in {"Struct", "EnumMatching"}}}

\* the i-th method got the body of an instance method of a packed struct
\* (or union), or of an enum, with at least one field
C22_Case(i) ==
    /\ ~from_scratch
    /\ trait_def.methods[i].explicit_self
    /\ item.kind = "Enum" \/ is_packed(item)
    /\ CallFieldExprs(methods[i].calls) # {}

\* the bindings of the i-th body are by value and the field expressions
\* the bindings themselves (by_value), or the bindings are by reference and
\* the field expressions dereference them
BindsAs(i, by_value) ==
    /\ BodyBindingModes(methods[i].body) = {IF by_value THEN "ByValue" ELSE "ByRef"}
    /\ \A x \in CallFieldExprs(methods[i].calls) :
          IF by_value THEN x.e = "path" ELSE x.e = "deref" /\ x.of.e = "path"

\* C22 as stated: for a packed struct the fields are bound by value exactly
\* when the type derives Copy and has no generic parameter of any kind, and
\* by reference otherwise; for an enum always by reference.
C22_AsStated ==
    \A i \in 1..Len(methods) :
        C22_Case(i) =>
            BindsAs(i, /\ item.kind # "Enum"
                       /\ item.derive_copy
                       /\ item.generics.params = <<>>)

\* C22: for a packed struct the fields are bound by value exactly when the
\* type derives Copy and has no type parameter (lifetime and const
\* parameters do not count), and by reference, with the field expressions
\* dereferencing the bindings, otherwise; for an enum always by reference.
C22_BindingMode ==
    \A i \in 1..Len(methods) :
        C22_Case(i) =>
            BindsAs(i, /\ item.kind # "Enum"
                       /\ item.derive_copy
                       /\ \A j \in 1..Len(item.generics.params) :
                             item.generics.params[j].kind # "Type")

\* C22 witness: a packed struct that derives Copy and has a lifetime and
\* two const parameters, but no type parameter, got a body that binds its
\* field by value
C22_Witness ==
    /\ Len(methods) = 1
    /\ C22_Case(1)
    /\ item.kind = "Struct"
    /\ item.derive_copy
    /\ Len(item.generics.params) = 3
    /\ BodyBindingModes(methods[1].body) = {"ByValue"}
    /\ \E x \in CallFieldExprs(methods[1].calls) : x.e = "path"

-----------------------------------------------------------------------------
(* Properties of the discriminant test of an enum method body.             *)

\* the conjuncts of a left-nested conjunction, in order
RECURSIVE Conjuncts(_)
Conjuncts(x) ==
    IF x.e = "binary" /\ x.op = "And" THEN Append(Conjuncts(x.lhs), x.rhs) ELSE <<x>>

\* the name the discriminant of the k-th self-like argument is bound to
DiscriminantName(k) ==
    IF k = 1 THEN "__self_vi" ELSE "__arg_" \o ToString(k - 1) \o "_vi"

\* the environment after the let statements
RECURSIVE BindAll(_, _, _)
BindAll(env, stmts, variants) ==
    IF stmts = <<>> THEN env
    ELSE BindAll(Bind(env, Head(stmts), variants), Tail(stmts), variants)

\* the i-th method has just got the body of an instance method with at
\* least two self-like arguments of an enum with more than one variant (the
\* later steps leave the body as it is)
C23_Case(i) ==
    /\ pc = "methods"
    /\ EnumInstanceBody(i)
    /\ Len(item.def) > 1
    /\ NumSelflike(trait_def.methods[i]) >= 2

\* C23: for an enum with more than one variant and N >= 2 self-like
\* arguments the body is N let statements that bind the discriminants of
\* the arguments, in argument order, to __self_vi, __arg_1_vi, ...,
\* followed by one if expression.  Its guard is the conjunction of the N-1
\* equalities of the first discriminant with each other one and is true
\* exactly when all arguments hold the same variant; its then-branch is
\* the match over the tuple of the by-reference arguments and its
\* else-branch the code the combinator returned for
\* EnumNonMatchingCollapsed.
C23_DiscriminantTest ==
    \A i \in 1..Len(methods) :
        C23_Case(i) =>
            LET m == trait_def.methods[i]
                n == NumSelflike(m)
                b == methods[i].body
                args == methods[i].body_selflike_args
                x == Unwrap(b.expr)
                cond == x.cond
                names == selflike_names(m)
                idents == {item.def[v].ident : v \in 1..Len(item.def)}
                bound == {DiscriminantName(k) : k \in 1..n}
                \* what the k-th let statement binds when the k-th argument
                \* holds the variant v
                bindings ==
                    [k \in 1..n |->
                        [v \in idents |->
                            BindAll([a \in {names[k]} |-> v], <<b.stmts[k]>>,
                                    item.def)[DiscriminantName(k)]]]
            IN  /\ Len(args) = n
                /\ b.stmts = [k \in 1..n |->
                                 [s |-> "let",
                                  pat |-> [p |-> "ident", mode |-> "ByValue",
                                           name |-> DiscriminantName(k)],
                                  expr |-> [e |-> "intrinsic", name |-> "discriminant_value",
                                            elems |-> <<[e |-> "addr_of", of |-> args[k]]>>]]]
                /\ IsSome(b.expr)
                /\ x.e = "if"
                /\ Conjuncts(x.cond)
                      = [k \in 1..(n - 1) |->
                            [e |-> "binary", op |-> "Eq",
                             lhs |-> [e |-> "path", name |-> DiscriminantName(1)],
                             rhs |-> [e |-> "path", name |-> DiscriminantName(k + 1)]]]
                /\ \A vals \in [1..n -> idents] :
                      Eval(cond,
                           [a \in bound |->
                               LET k == CHOOSE j \in 1..n : DiscriminantName(j) = a
                               IN  bindings[k][vals[k]]],
                           item.def)
                         = (\A k \in 1..n : vals[k] = vals[1])
                /\ x.then.e = "match"
                /\ x.then.arg = [e |-> "tup",
                                 elems |-> [k \in 1..n |-> [e |-> "addr_of", of |-> args[k]]]]
                /\ x.els = Some(into_expr(call_substructure_method(
                                    m, item.ident, methods[i].body_nonselflike_args,
                                    EnumNonMatchingCollapsed(
                                        [k \in 1..n |-> DiscriminantName(k)]))))
                /\ Markers(Unwrap(x.els)) # <<>>
                /\ \A j \in 1..Len(Markers(Unwrap(x.els))) :
                      Markers(Unwrap(x.els))[j].fields.tag = "EnumNonMatchingCollapsed"

\* C23 witness: a method with three self-like arguments of an enum of three
\* variants got a body of three let statements and an if expression with a
\* guard of two equalities
C23_Witness ==
    /\ Len(methods) >= 1
    /\ C23_Case(1)
    /\ NumSelflike(trait_def.methods[1]) = 3
    /\ Len(item.def) = 3
    /\ Len(methods[1].body.stmts) = 3
    /\ Unwrap(methods[1].body.expr).e = "if"
    /\ Len(Conjuncts(Unwrap(methods[1].body.expr).cond)) = 2

-----------------------------------------------------------------------------
(* Properties of the where-predicates inferred from the field types.       *)

\* the types a type holds, itself first, then those of its parts in the
\* order they are written: the qualified self type, the generic arguments
\* of the path segments, the element types, the generic arguments of the
\* trait bounds; a type macro holds none
RECURSIVE SubTypes(_)
RECURSIVE SubTypesOfSegments(_)
SubTypesOfSegments(segments) ==
    Flatten([s \in 1..Len(segments) |->
                Flatten([a \in 1..Len(segments[s].args) |-> SubTypes(segments[s].args[a])])])

SubTypes(ty) ==
    <<ty>>
    \o CASE ty.t = "Path" ->
               (IF IsSome(ty.qself) THEN SubTypes(Unwrap(ty.qself)) ELSE <<>>)
               \o SubTypesOfSegments(ty.segments)
         [] ty.t \in {"Rptr", "Tup"} ->
               Flatten([j \in 1..Len(ty.tys) |-> SubTypes(ty.tys[j])])
         [] ty.t = "TraitObject" ->
               Flatten([j \in 1..Len(ty.bounds) |-> SubTypesOfSegments(ty.bounds[j].segments)])
         [] OTHER -> <<>>

\* the type parameters the item declares
DeclaredTyParams ==
    {item.generics.params[i].ident :
        i \in {j \in 1..Len(item.generics.params) : item.generics.params[j].kind = "Type"}}

\* a path type whose first segment is a declared type parameter
StartsWithParam(ty) ==
    ty.t = "Path" /\ ty.segments # <<>> /\ ty.segments[1].ident \in DeclaredTyParams

\* exactly a bare declared parameter
BareParam(ty) == StartsWithParam(ty) /\ Len(ty.segments) = 1

\* the occurrences, in the field types of the item, of a path type that
\* starts with a declared type parameter and is not a bare parameter, by
\* field and in the order they are written
Projections ==
    Flatten([i \in 1..Len(field_tys(item)) |->
                SelectSeq(SubTypes(field_tys(item)[i]),
                          LAMBDA ty : StartsWithParam(ty) /\ ~BareParam(ty))])

\* the impl was made
C24_Case == IsSome(newitem)

\* C24: create_derived_impl appends exactly one where-predicate for every
\* occurrence, anywhere inside a field type, of a path type that starts
\* with a declared type parameter and is not a bare parameter; its bounded
\* type is the occurrence and its bounds the trait's additional bounds
\* followed by the derived trait.  These predicates follow the type's own
\* where-predicates, in the order of the fields and of the traversal, and
\* no predicate bounds a bare declared parameter.
C24_Projections ==
    C24_Case =>
        LET preds == Unwrap(newitem).generics.predicates
            own == item.generics.predicates
            inferred == InferredPredicates
            added == SelectSeq(inferred, LAMBDA q : StartsWithParam(q.bounded_ty))
            expected == Projections
        IN  /\ Len(preds) >= Len(own)
            /\ \A i \in 1..Len(own) :
                  /\ preds[i].bounded_ty = own[i].bounded_ty
                  /\ preds[i].bounds = own[i].bounds
            /\ [k \in 1..Len(added) |->
                   [kind |-> added[k].kind, bounded_ty |-> added[k].bounded_ty,
                    bounds |-> added[k].bounds]]
                  = [k \in 1..Len(expected) |->
                        [kind |-> "BoundPredicate", bounded_ty |-> expected[k],
                         bounds |-> trait_def.additional_bounds \o <<trait_def.path>>]]
            /\ \A k \in 1..Len(inferred) : ~BareParam(inferred[k].bounded_ty)

\* C24 witness: the impl of a struct with the type's own where-predicate,
\* with the fields (T, U::Item) and Vec<T::Item> and a trait with an
\* additional bound, got the predicates for U::Item and T::Item, in this
\* order, after the type's own
C24_Witness ==
    /\ C24_Case
    /\ Len(item.generics.predicates) = 1
    /\ trait_def.additional_bounds # <<>>
    /\ item.kind = "Struct"
    /\ field_tys(item) = <<TyTup(<<TyParam("T"), TyProj("U", "Item")>>),
                           TyVec(TyProj("T", "Item"))>>
    /\ Len(Unwrap(newitem).generics.predicates) = 3
    /\ Unwrap(newitem).generics.predicates[2].bounded_ty = TyProj("U", "Item")
    /\ Unwrap(newitem).generics.predicates[3].bounded_ty = TyProj("T", "Item")

-----------------------------------------------------------------------------
(* Properties of the static path.                                          *)

\* the i-th method is one the static path is taken for
StaticPath(i) == from_scratch \/ ~trait_def.methods[i].explicit_self

\* the substructure a static body of the item is made from
ExpectedStatic ==
    IF item.kind = "Enum"
    THEN [tag |-> "StaticEnum", enum_def |-> item.def,
          summaries |-> [v \in 1..Len(item.def) |->
                            [ident |-> item.def[v].ident,
                             span |-> [item.def[v].span EXCEPT !.ctxt = trait_span.ctxt],
                             summary |-> summarise_struct(item.def[v].data)]]]
    ELSE [tag |-> "StaticStruct", data |-> item.def,
          summary |-> summarise_struct(item.def)]

\* C25: a method is expanded through the static path exactly when it has
\* no receiver or from_scratch is true.  On that path the combinator is
\* invoked exactly once, without field values: with StaticStruct and the
\* summary of the field list for a struct or union, with StaticEnum and one
\* (name, location, summary) entry per variant, in declaration order, for
\* an enum.  Off that path it is never invoked with either.  A method that
\* declares a receiver keeps it in its signature, also with from_scratch.
C25_StaticPath ==
    \A i \in 1..Len(methods) :
        LET m == trait_def.methods[i]
            calls == methods[i].calls
        IN  /\ IF StaticPath(i)
               THEN /\ calls = <<ExpectedStatic>>
                    /\ "fields" \notin DOMAIN calls[1]
                    /\ Len(BodyMarkers(methods[i].body)) = MarkersPerCall(m)
                    /\ \A k \in 1..Len(BodyMarkers(methods[i].body)) :
                          BodyMarkers(methods[i].body)[k].fields = ExpectedStatic
               ELSE \A c \in 1..Len(calls) :
                       calls[c].tag \notin {"StaticStruct", "StaticEnum"}
            /\ m.explicit_self <=>
                  /\ methods[i].method.args # <<>>
                  /\ methods[i].method.args[1].ident = "self"

\* C25 witness: with from_scratch, a method with a receiver of an enum of
\* three variants got the static body made of three summaries, and kept
\* its receiver
C25_Witness ==
    /\ from_scratch
    /\ Len(methods) = 1
    /\ trait_def.methods[1].explicit_self
    /\ item.kind = "Enum"
    /\ Len(item.def) = 3
    /\ Len(methods[1].calls) = 1
    /\ methods[1].calls[1].tag = "StaticEnum"
    /\ Len(methods[1].calls[1].summaries) = 3
    /\ methods[1].method.args[1].ident = "self"

-----------------------------------------------------------------------------
(* Properties of the invocation with EnumNonMatchingCollapsed.             *)

\* the invocations of the combinator with EnumNonMatchingCollapsed for the
\* body of the i-th method
CollapsedCalls(i) ==
    SelectSeq(methods[i].calls, LAMBDA c : c.tag = "EnumNonMatchingCollapsed")

\* C26: for an instance method of an enum the combinator is invoked with
\* EnumNonMatchingCollapsed exactly once when the enum has more than one
\* variant and the method more than one self-like argument, and never
\* otherwise; the invocation carries exactly one discriminant binding per
\* self-like argument.
C26_CollapsedOnce ==
    \A i \in 1..Len(methods) :
        EnumInstanceBody(i) =>
            LET n == NumSelflike(trait_def.methods[i])
            IN  /\ Len(CollapsedCalls(i))
                      = (IF Len(item.def) > 1 /\ n > 1 THEN 1 ELSE 0)
                /\ \A c \in 1..Len(CollapsedCalls(i)) :
                      /\ Len(CollapsedCalls(i)[c].idents) = n
                      /\ Cardinality({CollapsedCalls(i)[c].idents[k] : k \in 1..n}) = n
                /\ Len(SelectSeq(BodyMarkers(methods[i].body),
                                 LAMBDA s : s.fields.tag = "EnumNonMatchingCollapsed"))
                      = Len(CollapsedCalls(i)) * MarkersPerCall(trait_def.methods[i])

\* C26 witness: a method with three self-like arguments of an enum of two
\* variants got one invocation with three discriminant bindings, after
\* the invocations for the variants
C26_Witness ==
    /\ Len(methods) = 1
    /\ EnumInstanceBody(1)
    /\ NumSelflike(trait_def.methods[1]) = 3
    /\ Len(item.def) = 2
    /\ Len(CollapsedCalls(1)) = 1
    /\ CollapsedCalls(1)[1].idents = <<"__self_vi", "__arg_1_vi", "__arg_2_vi">>
    /\ methods[1].calls[Len(methods[1].calls)].tag = "EnumNonMatchingCollapsed"

-----------------------------------------------------------------------------
(* Properties of the EnumMatching substructures.                           *)

\* the invocations of the combinator with EnumMatching for the body of the
\* i-th method
MatchingCalls(i) == SelectSeq(methods[i].calls, LAMBDA c : c.tag = "EnumMatching")

\* the EnumMatching substructure c has the number of variants of the enum
\* as count, one FieldInfo per field of its variant, and in each as many
\* other-argument expressions as there are self-like arguments but one
CountAndFields(c, n) ==
    /\ c.count = Len(item.def)
    /\ Len(c.fields) = Len(fields_of(c.variant.data))
    /\ \A j \in 1..Len(c.fields) : Len(c.fields[j].other_selflike_exprs) = n - 1

\* the index of c is the position of its variant in the enum
IndexOfVariant(c) ==
    /\ c.index \in 0..(Len(item.def) - 1)
    /\ item.def[c.index + 1] = c.variant

\* the body of the i-th method has the arm shared by the fieldless variants
HasSharedArm(i) ==
    /\ trait_def.methods[i].unify_fieldless_variants
    /\ \E v \in 1..Len(item.def) : fields_of(item.def[v].data) = <<>>

\* C27 as stated: in every EnumMatching substructure handed to the
\* combinator, in the arms of the variants and in the shared arm of the
\* fieldless variants, count is the number of variants, index the position
\* of the variant, and fields has one FieldInfo per field of the variant,
\* each with one other-argument expression per further self-like argument.
C27_AsStated ==
    \A i \in 1..Len(methods) :
        EnumInstanceBody(i) =>
            \A k \in 1..Len(MatchingCalls(i)) :
                /\ CountAndFields(MatchingCalls(i)[k], NumSelflike(trait_def.methods[i]))
                /\ IndexOfVariant(MatchingCalls(i)[k])

\* C27: in every EnumMatching substructure handed to the combinator count
\* is the number of variants and fields has one FieldInfo per field of the
\* variant, each with one other-argument expression per further self-like
\* argument.  In the arms of the variants index is the position of the
\* variant.  In the shared arm of the fieldless variants index is 0 and the
\* variant is the first fieldless variant, whatever its position, with no
\* FieldInfo.
C27_EnumMatching ==
    \A i \in 1..Len(methods) :
        EnumInstanceBody(i) =>
            LET em == MatchingCalls(i)
                n == NumSelflike(trait_def.methods[i])
                own == IF HasSharedArm(i) THEN Len(em) - 1 ELSE Len(em)
                first == CHOOSE v \in 1..Len(item.def) :
                            /\ fields_of(item.def[v].data) = <<>>
                            /\ \A w \in 1..(v - 1) : fields_of(item.def[w].data) # <<>>
            IN  /\ own >= 0
                /\ \A k \in 1..Len(em) : CountAndFields(em[k], n)
                /\ \A k \in 1..own : IndexOfVariant(em[k])
                /\ HasSharedArm(i) =>
                      /\ em[Len(em)].index = 0
                      /\ em[Len(em)].variant = item.def[first]
                      /\ em[Len(em)].fields = <<>>

\* C27 witness: a method with unify_fieldless_variants and two self-like
\* arguments of an enum whose first variant has two fields and whose second
\* has none got the arm of the first variant, with two FieldInfo of one
\* other-argument expression each, and the shared arm with index 0 and the
\* second variant
C27_Witness ==
    /\ Len(methods) = 1
    /\ EnumInstanceBody(1)
    /\ HasSharedArm(1)
    /\ NumSelflike(trait_def.methods[1]) = 2
    /\ Len(item.def) = 2
    /\ Len(MatchingCalls(1)) = 2
    /\ Len(MatchingCalls(1)[1].fields) = 2
    /\ Len(MatchingCalls(1)[1].fields[1].other_selflike_exprs) = 1
    /\ MatchingCalls(1)[2].index = 0
    /\ MatchingCalls(1)[2].variant = item.def[2]

-----------------------------------------------------------------------------
(* Properties of the calls cs_fold makes to its callback.                  *)

\* the fields of the folded substructure in the order the fold visits
\* them: as declared for the left fold, reversed for the right fold
VisitedFields ==
    LET fs == substructure.fields.fields
    IN  IF use_foldl THEN fs ELSE [k \in 1..Len(fs) |-> fs[Len(fs) + 1 - k]]

\* what the callback has returned after the first k visited fields
RECURSIVE Accumulated(_)
Accumulated(k) ==
    IF k = 1 THEN VisitedFields[1].self_expr
    ELSE [e |-> "pair", lhs |-> Accumulated(k - 1), rhs |-> VisitedFields[k].self_expr]

\* cs_fold has returned from a substructure with at least one field
C28_Case ==
    /\ pc = "folded"
    /\ substructure.fields.tag \in {"Struct", "EnumMatching"}
    /\ substructure.fields.fields # <<>>

\* C28: over n >= 1 fields cs_fold calls the callback n times with Single,
\* once per field, n-1 times with Combine, and never with Fieldless or
\* EnumNonMatching.  The first call is Single of the base field (the first
\* field for the left fold, the last for the right fold); every later field
\* gets a Single call immediately followed by a Combine call whose first
\* expression is the result accumulated so far and whose second is the
\* result of that Single call; the fields are visited in declaration order
\* by the left fold and in reverse declaration order by the right fold.
C28_CallbackCalls ==
    C28_Case =>
        LET n == Len(substructure.fields.fields)
        IN  /\ Len(f_calls) = 2 * n - 1
            /\ Len(SelectSeq(f_calls, LAMBDA c : c.tag = "Single")) = n
            /\ Len(SelectSeq(f_calls, LAMBDA c : c.tag = "Combine")) = n - 1
            /\ \A j \in 1..Len(f_calls) : f_calls[j].tag \in {"Single", "Combine"}
            /\ f_calls[1] = [tag |-> "Single", field |-> VisitedFields[1]]
            /\ \A k \in 2..n :
                  /\ f_calls[2 * k - 2] = [tag |-> "Single", field |-> VisitedFields[k]]
                  /\ f_calls[2 * k - 1].tag = "Combine"
                  /\ f_calls[2 * k - 1].old = Accumulated(k - 1)
                  /\ f_calls[2 * k - 1].new = VisitedFields[k].self_expr
            /\ fold_result = Some(Accumulated(n))

\* C28 witness: the right fold over three fields called the callback with
\* Single of the third field, then Single of the second and Combine, then
\* Single of the first and Combine
C28_Witness ==
    /\ C28_Case
    /\ ~use_foldl
    /\ Len(substructure.fields.fields) = 3
    /\ Len(f_calls) = 5
    /\ f_calls[1] = [tag |-> "Single", field |-> substructure.fields.fields[3]]
    /\ f_calls[2] = [tag |-> "Single", field |-> substructure.fields.fields[2]]
    /\ f_calls[3].tag = "Combine"
    /\ f_calls[4] = [tag |-> "Single", field |-> substructure.fields.fields[1]]
    /\ f_calls[5].tag = "Combine"

-----------------------------------------------------------------------------
(* Properties of the number of self-like arguments.                        *)

\* the expansion of the instance method of the item has been attempted
InstanceMethodDone ==
    /\ pc # "expand_ext"
    /\ ~from_scratch
    /\ ~unsupported(item, trait_def)
    /\ Len(trait_def.methods) = 1
    /\ trait_def.methods[1].explicit_self

\* the arms of the variants in the match of the body b: all but a wildcard arm
VariantArms(b) == SelectSeq(TheMatch(b).arms, LAMBDA a : a.pat.p # "wild")

\* the pattern covers n arguments, each by a by-reference pattern: a tuple
\* of n of them, or the pattern itself when n is 1
CoversArgs(pat, n) ==
    IF n = 1 THEN pat.p = "ref"
    ELSE /\ pat.p = "tuple"
         /\ Len(pat.subpats) = n
         /\ \A k \in 1..n : pat.subpats[k].p = "ref"

\* C29: expand_struct_method_body accepts one or two self-like arguments
\* only: for an instance method of a struct or union with three or more it
\* fails on its assertion, before the combinator is invoked and before a
\* FieldInfo is built.  expand_enum_method_body accepts any number N >= 1:
\* it does not fail, every arm of a variant covers the N arguments with N
\* by-reference patterns, and there are N discriminant bindings (N
\* identifiers, bound by N let statements whenever the discriminants are
\* tested and handed to the combinator with EnumNonMatchingCollapsed).
C29_SelflikeCount ==
    InstanceMethodDone =>
        LET n == NumSelflike(trait_def.methods[1])
        IN  IF item.kind # "Enum"
            THEN IF n >= 3
                 THEN /\ pc = "ice"
                      /\ diagnostics
                            = <<[level |-> "bug",
                                 msg |-> "assertion failed: selflike_args.len() == 1 || selflike_args.len() == 2"]>>
                      /\ methods = <<>>
                      /\ newitem = None
                      /\ pushed = <<>>
                 ELSE /\ pc # "ice"
                      /\ Len(methods) = 1
                      /\ Len(methods[1].calls) = 1
                      /\ methods[1].calls[1].tag = "Struct"
            ELSE /\ pc # "ice"
                 /\ diagnostics = <<>>
                 /\ Len(methods) = 1
                 /\ Len(methods[1].body_selflike_args) = n
                 /\ Len(vi_idents(enum_prefixes(methods[1].body_selflike_args))) = n
                 /\ Len(item.def) >= 1 =>
                       \A k \in 1..Len(VariantArms(methods[1].body)) :
                           CoversArgs(VariantArms(methods[1].body)[k].pat, n)
                 /\ methods[1].body.stmts # <<>> =>
                       /\ Len(methods[1].body.stmts) = n
                       /\ \A k \in 1..n : methods[1].body.stmts[k].s = "let"
                       /\ Len(CollapsedCalls(1)) = 1
                       /\ CollapsedCalls(1)[1].idents
                             = [k \in 1..n |-> methods[1].body.stmts[k].pat.name]

\* C29 witness: the expansion of an instance method with three self-like
\* arguments failed on the assertion for a struct with a field
C29_Witness ==
    /\ InstanceMethodDone
    /\ item.kind = "Struct"
    /\ Len(fields_of(item.def)) >= 1
    /\ NumSelflike(trait_def.methods[1]) = 3
    /\ pc = "ice"
    /\ methods = <<>>

\* a method with three self-like arguments of an enum of two variants got
\* arms of three patterns and three discriminant bindings
C29_EnumWitness ==
    /\ InstanceMethodDone
    /\ item.kind = "Enum"
    /\ Len(item.def) = 2
    /\ NumSelflike(trait_def.methods[1]) = 3
    /\ Len(methods) = 1
    /\ Len(methods[1].body.stmts) = 3
    /\ VariantArms(methods[1].body) # <<>>
    /\ Len(VariantArms(methods[1].body)[1].pat.subpats) = 3

-----------------------------------------------------------------------------
(* Properties of the stack of higher-ranked parameters.                    *)

\* the types a type holds, as SubTypes, each with the for-all parameters of
\* the trait-bound clauses it is written in, outermost first
RECURSIVE Enclosed(_, _)
RECURSIVE EnclosedInSegments(_, _)
EnclosedInSegments(segments, binders) ==
    Flatten([s \in 1..Len(segments) |->
                Flatten([a \in 1..Len(segments[s].args) |->
                            Enclosed(segments[s].args[a], binders)])])

Enclosed(ty, binders) ==
    <<[ty |-> ty, binders |-> binders]>>
    \o CASE ty.t = "Path" ->
               (IF IsSome(ty.qself) THEN Enclosed(Unwrap(ty.qself), binders) ELSE <<>>)
               \o EnclosedInSegments(ty.segments, binders)
         [] ty.t \in {"Rptr", "Tup"} ->
               Flatten([j \in 1..Len(ty.tys) |-> Enclosed(ty.tys[j], binders)])
         [] ty.t = "TraitObject" ->
               Flatten([j \in 1..Len(ty.bounds) |->
                           EnclosedInSegments(ty.bounds[j].segments,
                                              binders \o ty.bounds[j].bound_generic_params)])
         [] OTHER -> <<>>

\* the trait-bound clauses written anywhere in a type
RECURSIVE Clauses(_)
RECURSIVE ClausesInSegments(_)
ClausesInSegments(segments) ==
    UNION {UNION {Clauses(segments[s].args[a]) : a \in 1..Len(segments[s].args)} :
              s \in 1..Len(segments)}

Clauses(ty) ==
    CASE ty.t = "Path" ->
            (IF IsSome(ty.qself) THEN Clauses(Unwrap(ty.qself)) ELSE {})
            \cup ClausesInSegments(ty.segments)
      [] ty.t \in {"Rptr", "Tup"} -> UNION {Clauses(ty.tys[j]) : j \in 1..Len(ty.tys)}
      [] ty.t = "TraitObject" ->
            {ty.bounds[j] : j \in 1..Len(ty.bounds)}
            \cup UNION {ClausesInSegments(ty.bounds[j].segments) : j \in 1..Len(ty.bounds)}
      [] OTHER -> {}

\* the stacks a clause is entered with in the check
EntryStacks == {<<>>, <<"'x">>, <<"'x", "'y">>}

\* the field types were traversed for an impl with a type parameter
C30_Case ==
    /\ IsSome(newitem)
    /\ ImplTyParamNames # <<>>

\* C30: the stack of higher-ranked parameters is empty at the start and at
\* the end of the traversal of a field type, and after a trait-bound
\* clause was visited it is what it was when the clause was entered; so
\* every recorded occurrence carries exactly the for-all parameters of the
\* clauses that enclose it, outermost first, and none of a clause it is
\* not nested in.
C30_Stack ==
    C30_Case =>
        /\ \A i \in 1..Len(field_tys(item)) :
              LET ty == field_tys(item)[i]
                  v == find_type_parameters(ty, ImplTyParamNames)
                  expected == SelectSeq(Enclosed(ty, <<>>),
                                        LAMBDA o : /\ o.ty.t = "Path"
                                                   /\ o.ty.segments # <<>>
                                                   /\ Contains(ImplTyParamNames,
                                                               o.ty.segments[1].ident))
              IN  /\ v.bound_generic_params_stack = <<>>
                  /\ v.type_params
                        = [k \in 1..Len(expected) |->
                              [bound_generic_params |-> expected[k].binders,
                               ty |-> expected[k].ty]]
                  /\ \A c \in Clauses(ty) : \A st \in EntryStacks :
                        visit_poly_trait_ref(
                            [bound_generic_params_stack |-> st, type_params |-> <<>>,
                             errors |-> <<>>],
                            ImplTyParamNames, c).bound_generic_params_stack = st
        /\ LET expected ==
                   Flatten([i \in 1..Len(field_tys(item)) |->
                               SelectSeq(Enclosed(field_tys(item)[i], <<>>),
                                         LAMBDA o : /\ o.ty.t = "Path"
                                                    /\ Len(o.ty.segments) > 1
                                                    /\ Contains(ImplTyParamNames,
                                                                o.ty.segments[1].ident))])
           IN  [k \in 1..Len(InferredPredicates) |->
                   InferredPredicates[k].bound_generic_params]
                  = [k \in 1..Len(expected) |-> expected[k].binders]

\* C30 witness: for the field type
\* dyn for<'b> Fn(T::Item) + for<'c> Fn(Box<dyn for<'d> Fn(T::Item)>, U::Item)
\* of a struct S<'a, T, U, N> the predicates of T::Item, T::Item and U::Item
\* carry 'b, then 'c and 'd, then 'c alone
C30_Witness ==
    /\ C30_Case
    /\ field_tys(item) = <<TyDynFns(TyProj("T", "Item"), TyProj("U", "Item"))>>
    /\ Len(InferredPredicates) = 3
    /\ InferredPredicates[1].bound_generic_params = <<"'b">>
    /\ InferredPredicates[2].bound_generic_params = <<"'c", "'d">>
    /\ InferredPredicates[3].bound_generic_params = <<"'c">>
    /\ InferredPredicates[3].bounded_ty = TyProj("U", "Item")

=============================================================================
